---- MODULE Spec2Model ----
(***************************************************************************)
(* link2link: the repository-tree resolver (services/githubService.ts,     *)
(* fetchRepoFileTree) and its caller (components/RepoAnalyzer.tsx).        *)
(*                                                                         *)
(* JavaScript strings are modelled as sequences of one-character strings,  *)
(* so that includes/startsWith/match/split/join are computed on the        *)
(* characters as the code computes them.                                   *)
(***************************************************************************)
EXTENDS Integers, Sequences, FiniteSets, TLC

\* ---------------------------------------------------------------- strings

\* The ASCII letters, for the /i flag of the extension regex and URL hosts.
UpperLetters == <<"A","B","C","D","E","F","G","H","I","J","K","L","M","N","O","P","Q","R","S","T","U","V","W","X","Y","Z">>
LowerLetters == <<"a","b","c","d","e","f","g","h","i","j","k","l","m","n","o","p","q","r","s","t","u","v","w","x","y","z">>

UpperSet == {UpperLetters[i] : i \in 1..Len(UpperLetters)}

LowerOf ==
    [c \in UpperSet |->
        LowerLetters[CHOOSE i \in 1..Len(UpperLetters) : UpperLetters[i] = c]]

toLowerChar(c) == IF c \in UpperSet THEN LowerOf[c] ELSE c

toLowerCase(s) == [i \in 1..Len(s) |-> toLowerChar(s[i])]

\* String.prototype.includes
includes(s, sub) ==
    \E i \in 0..(Len(s) - Len(sub)) : SubSeq(s, i + 1, i + Len(sub)) = sub

\* String.prototype.startsWith
startsWith(s, p) == Len(p) <= Len(s) /\ SubSeq(s, 1, Len(p)) = p

\* String.prototype.endsWith (the regex anchor $ without the m flag)
endsWith(s, p) == Len(p) <= Len(s) /\ SubSeq(s, Len(s) - Len(p) + 1, Len(s)) = p

\* The alternatives of the extension regex, in source order.
Extensions == {
    <<"j","s">>,
    <<"j","s","x">>,
    <<"t","s">>,
    <<"t","s","x">>,
    <<"p","y">>,
    <<"g","o">>,
    <<"r","s">>,
    <<"j","a","v","a">>,
    <<"c">>,
    <<"c","p","p">>,
    <<"h">>,
    <<"h","p","p">>,
    <<"c","s">>,
    <<"p","h","p">>,
    <<"r","b">>,
    <<"s","w","i","f","t">>,
    <<"k","t">>,
    <<"d","a","r","t">>,
    <<"j","s","o","n">>,
    <<"y","a","m","l">>,
    <<"y","m","l">>,
    <<"t","o","m","l">>,
    <<"x","m","l">>,
    <<"h","t","m","l">>,
    <<"c","s","s">>
}

\* item.path.match(/\.(js|jsx|...|css)$/i): a dot, one alternative, end of input;
\* the i flag compares letters without regard to case.
matchesExtension(path) ==
    LET lower == toLowerCase(path)
    IN  \E ext \in Extensions : endsWith(lower, <<".">> \o ext)

NodeModulesMarker == <<"n","o","d","e","_","m","o","d","u","l","e","s">>
DistMarker == <<"d","i","s","t","/">>
BuildMarker == <<"b","u","i","l","d","/">>
DotMarker == <<".">>

\* A variant of keepItem without the test of the item's type.
keepItem_noType(item) ==
    /\ matchesExtension(item.path)
    /\ ~includes(item.path, NodeModulesMarker)
    /\ ~includes(item.path, DistMarker)
    /\ ~includes(item.path, BuildMarker)
    /\ ~startsWith(item.path, DotMarker)

\* A variant of keepItem without the test for a leading dot.
keepItem_noDot(item) ==
    /\ item.type = "blob"
    /\ matchesExtension(item.path)
    /\ ~includes(item.path, NodeModulesMarker)
    /\ ~includes(item.path, DistMarker)
    /\ ~includes(item.path, BuildMarker)

\* The predicate of the filter: an item of the response tree is kept when all hold.
keepItem(item) ==
    /\ item.type = "blob"
    /\ matchesExtension(item.path)
    /\ ~includes(item.path, NodeModulesMarker)
    /\ ~includes(item.path, DistMarker)
    /\ ~includes(item.path, BuildMarker)
    /\ ~startsWith(item.path, DotMarker)

\* A variant of filterTree that returns the kept entries in reverse order.
filterTree_reversed(tree) ==
    LET kept == SelectSeq(tree, keepItem)
    IN  [i \in 1..Len(kept) |-> kept[Len(kept) + 1 - i]]

\* (data.tree || []).filter(...)
filterTree(tree) == SelectSeq(tree, keepItem)

\* ------------------------------------------------------- paths of the model
P_src_index_ts == <<"s","r","c","/","i","n","d","e","x",".","t","s">>  \* "src/index.ts"
P_node_modules_y_js == <<"n","o","d","e","_","m","o","d","u","l","e","s","/","x","/","y",".","j","s">>  \* "node_modules/x/y.js"
P_dist_bundle_js == <<"d","i","s","t","/","b","u","n","d","l","e",".","j","s">>  \* "dist/bundle.js"
P_env == <<".","e","n","v">>  \* ".env"
P_src_dir == <<"s","r","c","/">>  \* "src/"
P_readme == <<"R","E","A","D","M","E",".","m","d">>  \* "README.md"
P_build_out_c == <<"b","u","i","l","d","/","o","u","t",".","c">>  \* "build/out.c"
P_eslintrc_json == <<".","e","s","l","i","n","t","r","c",".","j","s","o","n">>  \* ".eslintrc.json"
P_upper_py == <<"S","R","C","/","M","A","I","N",".","P","Y">>  \* "SRC/MAIN.PY"
P_mydist_a_ts == <<"s","r","c","/","m","y","d","i","s","t","/","a",".","t","s">>  \* "src/mydist/a.ts"
P_github_ci_yml == <<"s","r","c","/",".","g","i","t","h","u","b","/","c","i",".","y","m","l">>  \* "src/.github/ci.yml"
P_lib_js == <<"l","i","b",".","j","s">>  \* "lib.js"

\* The entries the enumerated response trees are built from: {path, type}
\* objects.
TreeEntries == {
    [path |-> P_src_index_ts, type |-> "blob"],
    [path |-> P_node_modules_y_js, type |-> "blob"],
    [path |-> P_dist_bundle_js, type |-> "blob"],
    [path |-> P_readme, type |-> "blob"],
    [path |-> P_build_out_c, type |-> "blob"],
    [path |-> P_eslintrc_json, type |-> "blob"],
    [path |-> P_upper_py, type |-> "blob"],
    [path |-> P_mydist_a_ts, type |-> "blob"],
    [path |-> P_github_ci_yml, type |-> "blob"],
    [path |-> P_lib_js, type |-> "tree"]
}

\* The raw tree of the filtering example.
ExampleTree == <<
    [path |-> P_src_index_ts, type |-> "blob"],
    [path |-> P_node_modules_y_js, type |-> "blob"],
    [path |-> P_dist_bundle_js, type |-> "blob"],
    [path |-> P_env, type |-> "blob"],
    [path |-> P_src_dir, type |-> "tree"],
    [path |-> P_readme, type |-> "blob"]
>>

\* A raw tree with several entries the filter keeps, one of them twice.
OrderTree == <<
    [path |-> P_upper_py, type |-> "blob"],
    [path |-> P_readme, type |-> "blob"],
    [path |-> P_src_index_ts, type |-> "blob"],
    [path |-> P_src_index_ts, type |-> "blob"]
>>

\* Longest response tree enumerated besides ExampleTree and OrderTree.
MaxTreeLen == 1

SeqsUpTo(S, n) == UNION {[1..k -> S] : k \in 0..n}

Trees == SeqsUpTo(TreeEntries, MaxTreeLen) \cup {ExampleTree, OrderTree}

\* ------------------------------------------------------------ error values

\* 'GitHub API rate limit exceeded. Please try again later (usually resets in an hour).'
RateLimitMessage ==
    <<"G","i","t","H","u","b"," ","A","P","I"," ","r","a","t","e"," ","l","i","m","i","t"," ","e","x","c","e","e","d","e","d","."," ","P","l","e","a","s","e"," ","t","r","y"," ","a","g","a","i","n"," ","l","a","t","e","r"," ","(","u","s","u","a","l","l","y"," ","r","e","s","e","t","s"," ","i","n"," ","a","n"," ","h","o","u","r",")",".">>

\* 'Failed to fetch repository. It might be private, non-existent, or using a non-standard default branch (checked: '
NotFoundPrefix ==
    <<"F","a","i","l","e","d"," ","t","o"," ","f","e","t","c","h"," ","r","e","p","o","s","i","t","o","r","y","."," ","I","t"," ","m","i","g","h","t"," ","b","e"," ","p","r","i","v","a","t","e",","," ","n","o","n","-","e","x","i","s","t","e","n","t",","," ","o","r"," ","u","s","i","n","g"," ","a"," ","n","o","n","-","s","t","a","n","d","a","r","d"," ","d","e","f","a","u","l","t"," ","b","r","a","n","c","h"," ","(","c","h","e","c","k","e","d",":"," ">>

\* ').'
NotFoundSuffix ==
    <<")",".">>

\* ', '
JoinSeparator ==
    <<","," ">>

\* 'rate limit'
RateLimitText ==
    <<"r","a","t","e"," ","l","i","m","i","t">>

\* 'Failed to fetch'
FailedToFetchMessage ==
    <<"F","a","i","l","e","d"," ","t","o"," ","f","e","t","c","h">>

\* 'Unexpected token '<', "<!DOCTYPE "... is not valid JSON'
JsonHtmlMessage ==
    <<"U","n","e","x","p","e","c","t","e","d"," ","t","o","k","e","n"," ","'","<","'",","," ","\"","<","!","D","O","C","T","Y","P","E"," ","\"",".",".","."," ","i","s"," ","n","o","t"," ","v","a","l","i","d"," ","J","S","O","N">>

\* 'Unexpected token 'r', "rate limit"... is not valid JSON'
JsonRateLimitMessage ==
    <<"U","n","e","x","p","e","c","t","e","d"," ","t","o","k","e","n"," ","'","r","'",","," ","\"","r","a","t","e"," ","l","i","m","i","t","\"",".",".","."," ","i","s"," ","n","o","t"," ","v","a","l","i","d"," ","J","S","O","N">>

\* 'Cannot read properties of null (reading 'truncated')'
ReadTruncatedOfNullMessage ==
    <<"C","a","n","n","o","t"," ","r","e","a","d"," ","p","r","o","p","e","r","t","i","e","s"," ","o","f"," ","n","u","l","l"," ","(","r","e","a","d","i","n","g"," ","'","t","r","u","n","c","a","t","e","d","'",")">>

\* 'Cannot read properties of undefined (reading 'match')'
ReadMatchOfUndefinedMessage ==
    <<"C","a","n","n","o","t"," ","r","e","a","d"," ","p","r","o","p","e","r","t","i","e","s"," ","o","f"," ","u","n","d","e","f","i","n","e","d"," ","(","r","e","a","d","i","n","g"," ","'","m","a","t","c","h","'",")">>

\* 'Cannot read properties of undefined (reading 'includes')'
ReadIncludesOfUndefinedMessage ==
    <<"C","a","n","n","o","t"," ","r","e","a","d"," ","p","r","o","p","e","r","t","i","e","s"," ","o","f"," ","u","n","d","e","f","i","n","e","d"," ","(","r","e","a","d","i","n","g"," ","'","i","n","c","l","u","d","e","s","'",")">>

\* 'No relevant code files found in this repository.'
NoFilesMessage ==
    <<"N","o"," ","r","e","l","e","v","a","n","t"," ","c","o","d","e"," ","f","i","l","e","s"," ","f","o","u","n","d"," ","i","n"," ","t","h","i","s"," ","r","e","p","o","s","i","t","o","r","y",".">>

\* 'Invalid format. Use "owner/repo" or a full GitHub URL.'
InvalidFormatMessage ==
    <<"I","n","v","a","l","i","d"," ","f","o","r","m","a","t","."," ","U","s","e"," ","\"","o","w","n","e","r","/","r","e","p","o","\""," ","o","r"," ","a"," ","f","u","l","l"," ","G","i","t","H","u","b"," ","U","R","L",".">>

\* 'Failed to generate visual.'
FailedVisualMessage ==
    <<"F","a","i","l","e","d"," ","t","o"," ","g","e","n","e","r","a","t","e"," ","v","i","s","u","a","l",".">>

\* 'An unexpected error occurred during analysis.'
UnexpectedMessage ==
    <<"A","n"," ","u","n","e","x","p","e","c","t","e","d"," ","e","r","r","o","r"," ","o","c","c","u","r","r","e","d"," ","d","u","r","i","n","g"," ","a","n","a","l","y","s","i","s",".">>

\* 'Requested entity was not found'
EntityNotFoundText ==
    <<"R","e","q","u","e","s","t","e","d"," ","e","n","t","i","t","y"," ","w","a","s"," ","n","o","t"," ","f","o","u","n","d">>

\* 'Requested entity was not found.'
EntityNotFoundMessage ==
    <<"R","e","q","u","e","s","t","e","d"," ","e","n","t","i","t","y"," ","w","a","s"," ","n","o","t"," ","f","o","u","n","d",".">>

\* 'The model is overloaded.'
OverloadedMessage ==
    <<"T","h","e"," ","m","o","d","e","l"," ","i","s"," ","o","v","e","r","l","o","a","d","e","d",".">>

\* 'main'
Main ==
    <<"m","a","i","n">>

\* 'master'
Master ==
    <<"m","a","s","t","e","r">>

\* const branches = ['main', 'master'];
branches == <<Main, Master>>

\* Array.prototype.join
RECURSIVE join(_, _)
join(parts, sep) ==
    IF Len(parts) = 0 THEN <<>>
    ELSE IF Len(parts) = 1 THEN parts[1]
    ELSE parts[1] \o sep \o join(Tail(parts), sep)

\* new Error('GitHub API rate limit exceeded. ...')
RateLimitedError == [name |-> "Error", message |-> RateLimitMessage]

\* A variant of NotFoundError whose message leaves the branch names out.
NotFoundError_noBranches ==
    [name |-> "Error", message |-> NotFoundPrefix \o NotFoundSuffix]

\* new Error(`Failed to fetch repository. ... (checked: ${branches.join(', ')}).`)
NotFoundError ==
    [name |-> "Error",
     message |-> NotFoundPrefix \o join(branches, JoinSeparator) \o NotFoundSuffix]

\* What fetch() rejects with: the browser's TypeError for a network failure.
FetchRejections == {
    [name |-> "TypeError", message |-> FailedToFetchMessage]
}

\* What response.json() rejects with: a SyntaxError whose message quotes the
\* start of the body that failed to parse.
JsonRejections == {
    [name |-> "SyntaxError", message |-> JsonHtmlMessage],
    [name |-> "SyntaxError", message |-> JsonRateLimitMessage]
}

\* The statuses the tree endpoint answers with.
Statuses == {200, 403, 404, 429, 500}

\* Response.ok
responseOk(status) == status >= 200 /\ status <= 299

\* How a fetch() settles.
FetchOutcomes ==
    [kind : {"response"}, status : Statuses]
    \cup [kind : {"reject"}, error : FetchRejections]

\* How response.json() settles.  "object": a JSON object, with or without a
\* tree member; "null": the JSON text null; "badtree": an object whose tree holds
\* a blob item without a path; "reject": the body is no JSON.
JsonOutcomes ==
    [kind : {"object"}, hasTree : {TRUE}, tree : Trees, truncated : BOOLEAN]
    \cup [kind : {"object"}, hasTree : {FALSE}, tree : {<<>>}, truncated : BOOLEAN]
    \cup [kind : {"null"}]
    \cup [kind : {"badtree"}, truncated : BOOLEAN]
    \cup [kind : {"reject"}, error : JsonRejections]

\* ------------------------------------------------- fetchRepoFileTree, by parts

Return(value, logs) == [kind |-> "return", value |-> value, logs |-> logs]
Throw(err, logs) == [kind |-> "throw", error |-> err, logs |-> logs]
Continue(logs) == [kind |-> "continue", logs |-> logs]
AwaitJson == [kind |-> "json", logs |-> <<>>]

\* if (data.truncated) console.warn(...)
truncatedWarning(data) == IF data.truncated THEN <<"warn:truncated">> ELSE <<>>

\* A variant of catchClause that rethrows the error of the final candidate.
catchClause_escalatesLast(err, idx, logs) ==
    IF "message" \notin DOMAIN err
    THEN Throw([name |-> "TypeError", message |-> ReadIncludesOfUndefinedMessage], logs)
    ELSE IF includes(err.message, RateLimitText)
    THEN Throw(err, logs)
    ELSE IF idx = Len(branches)
    THEN Throw(err, logs \o <<"error:fetch">>)
    ELSE Continue(logs)

\* The catch clause of the loop body, for the error thrown in iteration idx.
catchClause(err, idx, logs) ==
    IF "message" \notin DOMAIN err
    THEN \* error.message is undefined: .includes throws inside the catch clause
         Throw([name |-> "TypeError", message |-> ReadIncludesOfUndefinedMessage], logs)
    ELSE IF includes(err.message, RateLimitText)
    THEN Throw(err, logs)
    ELSE IF idx = Len(branches)
    THEN Continue(logs \o <<"error:fetch">>)
    ELSE Continue(logs)

\* A variant of onFetchSettled that tests only status 429 for the rate limit.
onFetchSettled_only429(outcome, idx) ==
    IF outcome.kind = "reject" THEN catchClause(outcome.error, idx, <<>>)
    ELSE IF responseOk(outcome.status) THEN AwaitJson
    ELSE IF outcome.status = 429
    THEN catchClause(RateLimitedError, idx, <<>>)
    ELSE Continue(<<>>)

\* The try block after `await fetch(...)` has settled.
onFetchSettled(outcome, idx) ==
    IF outcome.kind = "reject" THEN catchClause(outcome.error, idx, <<>>)
    ELSE IF responseOk(outcome.status) THEN AwaitJson
    ELSE IF outcome.status = 403 \/ outcome.status = 429
    THEN catchClause(RateLimitedError, idx, <<>>)
    ELSE Continue(<<>>)

\* A variant of onJsonSettled that goes on to the next candidate after a
\* successful response instead of returning.
onJsonSettled_noReturn(body, idx) ==
    IF body.kind = "reject" THEN catchClause(body.error, idx, <<>>)
    ELSE IF body.kind = "null"
    THEN catchClause([name |-> "TypeError", message |-> ReadTruncatedOfNullMessage],
                     idx, <<>>)
    ELSE IF body.kind = "badtree"
    THEN catchClause([name |-> "TypeError", message |-> ReadMatchOfUndefinedMessage],
                     idx, truncatedWarning(body))
    ELSE Continue(truncatedWarning(body))

\* A variant of onJsonSettled that gives up on a truncated tree and tries the
\* next candidate.
onJsonSettled_truncatedSkips(body, idx) ==
    IF body.kind = "reject" THEN catchClause(body.error, idx, <<>>)
    ELSE IF body.kind = "null"
    THEN catchClause([name |-> "TypeError", message |-> ReadTruncatedOfNullMessage],
                     idx, <<>>)
    ELSE IF body.kind = "badtree"
    THEN catchClause([name |-> "TypeError", message |-> ReadMatchOfUndefinedMessage],
                     idx, truncatedWarning(body))
    ELSE IF body.truncated THEN Continue(truncatedWarning(body))
    ELSE Return(filterTree(IF body.hasTree THEN body.tree ELSE <<>>),
                truncatedWarning(body))

\* A variant of onJsonSettled that tries the next candidate when the filtered
\* list of a successful response is empty.
onJsonSettled_emptyTriesNext(body, idx) ==
    IF body.kind = "reject" THEN catchClause(body.error, idx, <<>>)
    ELSE IF body.kind = "null"
    THEN catchClause([name |-> "TypeError", message |-> ReadTruncatedOfNullMessage],
                     idx, <<>>)
    ELSE IF body.kind = "badtree"
    THEN catchClause([name |-> "TypeError", message |-> ReadMatchOfUndefinedMessage],
                     idx, truncatedWarning(body))
    ELSE IF Len(filterTree(IF body.hasTree THEN body.tree ELSE <<>>)) = 0
    THEN Continue(truncatedWarning(body))
    ELSE Return(filterTree(IF body.hasTree THEN body.tree ELSE <<>>),
                truncatedWarning(body))

\* The try block after `await response.json()` has settled.
onJsonSettled(body, idx) ==
    IF body.kind = "reject" THEN catchClause(body.error, idx, <<>>)
    ELSE IF body.kind = "null"
    THEN catchClause([name |-> "TypeError", message |-> ReadTruncatedOfNullMessage],
                     idx, <<>>)
    ELSE IF body.kind = "badtree"
    THEN catchClause([name |-> "TypeError", message |-> ReadMatchOfUndefinedMessage],
                     idx, truncatedWarning(body))
    ELSE Return(filterTree(IF body.hasTree THEN body.tree ELSE <<>>),
                truncatedWarning(body))

\* ------------------------------------------------------------ parseRepoInput

RECURSIVE trimStart(_)
trimStart(s) == IF Len(s) > 0 /\ Head(s) = " " THEN trimStart(Tail(s)) ELSE s

RECURSIVE trimEnd(_)
trimEnd(s) ==
    IF Len(s) > 0 /\ s[Len(s)] = " " THEN trimEnd(SubSeq(s, 1, Len(s) - 1)) ELSE s

\* String.prototype.trim
trim(s) == trimEnd(trimStart(s))

\* .replace(/\/$/, '')
stripTrailingSlash(s) ==
    IF Len(s) > 0 /\ s[Len(s)] = "/" THEN SubSeq(s, 1, Len(s) - 1) ELSE s

\* The index of the first c in s, Len(s) + 1 when there is none.
indexOfChar(s, c) ==
    IF \E i \in 1..Len(s) : s[i] = c
    THEN CHOOSE i \in 1..Len(s) : s[i] = c /\ \A j \in 1..(i - 1) : s[j] # c
    ELSE Len(s) + 1

\* String.prototype.split('/')
RECURSIVE split(_)
split(s) ==
    LET i == indexOfChar(s, "/")
    IN  IF i > Len(s) THEN <<s>>
        ELSE <<SubSeq(s, 1, i - 1)>> \o split(SubSeq(s, i + 1, Len(s)))

\* .filter(Boolean) on an array of strings
filterBoolean(parts) == SelectSeq(parts, LAMBDA x : Len(x) > 0)

SchemeChars == {LowerLetters[i] : i \in 1..Len(LowerLetters)} \cup {"+", "-", "."}

\* new URL(s), for strings of the form scheme://host/path (no userinfo, port,
\* query or fragment): ok is FALSE where the constructor throws.
parseURL(s) ==
    LET colon == indexOfChar(s, ":")
        scheme == toLowerCase(SubSeq(s, 1, colon - 1))
        rest == SubSeq(s, colon + 1, Len(s))
        hasAuthority == startsWith(rest, <<"/", "/">>)
        afterSlashes == SubSeq(rest, 3, Len(rest))
        hostEnd == indexOfChar(afterSlashes, "/")
        host == SubSeq(afterSlashes, 1, hostEnd - 1)
        path == SubSeq(afterSlashes, hostEnd, Len(afterSlashes))
    IN  IF \/ colon > Len(s)
           \/ colon = 1
           \/ \E i \in 1..(colon - 1) : scheme[i] \notin SchemeChars
           \/ scheme[1] \notin {LowerLetters[i] : i \in 1..Len(LowerLetters)}
        THEN [ok |-> FALSE, hostname |-> <<>>, pathname |-> <<>>]
        ELSE IF ~hasAuthority
        THEN [ok |-> TRUE, hostname |-> <<>>, pathname |-> rest]
        ELSE IF Len(host) = 0
        THEN [ok |-> FALSE, hostname |-> <<>>, pathname |-> <<>>]
        ELSE [ok |-> TRUE, hostname |-> toLowerCase(host),
              pathname |-> IF Len(path) = 0 THEN <<"/">> ELSE path]

\* 'github.com'
GithubHost ==
    <<"g","i","t","h","u","b",".","c","o","m">>

NoDetails == [ok |-> FALSE, owner |-> <<>>, repo |-> <<>>]

\* A variant of parseRepoInput whose bare form only counts the parts
\* (parts.length === 2, without `&& parts[0] && parts[1]`).
parseRepoInput_anyTwoParts(input) ==
    LET cleanInput == stripTrailingSlash(trim(input))
        url == parseURL(cleanInput)
        urlParts == filterBoolean(split(url.pathname))
        parts == split(cleanInput)
    IN  IF url.ok /\ url.hostname = GithubHost /\ Len(urlParts) >= 2
        THEN [ok |-> TRUE, owner |-> urlParts[1], repo |-> urlParts[2]]
        ELSE IF Len(parts) = 2
        THEN [ok |-> TRUE, owner |-> parts[1], repo |-> parts[2]]
        ELSE NoDetails

\* A variant of parseRepoInput that splits the pathname without .filter(Boolean).
parseRepoInput_noFilter(input) ==
    LET cleanInput == stripTrailingSlash(trim(input))
        url == parseURL(cleanInput)
        urlParts == split(url.pathname)
        parts == split(cleanInput)
    IN  IF url.ok /\ url.hostname = GithubHost /\ Len(urlParts) >= 2
        THEN [ok |-> TRUE, owner |-> urlParts[1], repo |-> urlParts[2]]
        ELSE IF Len(parts) = 2 /\ Len(parts[1]) > 0 /\ Len(parts[2]) > 0
        THEN [ok |-> TRUE, owner |-> parts[1], repo |-> parts[2]]
        ELSE NoDetails

parseRepoInput(input) ==
    LET cleanInput == stripTrailingSlash(trim(input))
        url == parseURL(cleanInput)
        urlParts == filterBoolean(split(url.pathname))
        parts == split(cleanInput)
    IN  IF url.ok /\ url.hostname = GithubHost /\ Len(urlParts) >= 2
        THEN [ok |-> TRUE, owner |-> urlParts[1], repo |-> urlParts[2]]
        ELSE IF Len(parts) = 2 /\ Len(parts[1]) > 0 /\ Len(parts[2]) > 0
        THEN [ok |-> TRUE, owner |-> parts[1], repo |-> parts[2]]
        ELSE NoDetails

\* What the user types into the repository field.
IN_bare == <<"a","c","m","e","/","a","p","p">>  \* "acme/app"
IN_url == <<"h","t","t","p","s",":","/","/","g","i","t","h","u","b",".","c","o","m","/","b","e","t","a","/","l","i","b","/">>  \* "https://github.com/beta/lib/"
IN_bad == <<"a","c","m","e">>  \* "acme"

RepoInputs == {IN_bare, IN_url, IN_bad}

\* Every short text of names, slashes and blanks, typed as it is ...
InputChars == {"a", "b", "/", " "}

\* Longest such text.
MaxInputLen == 4

\* ... and every short path of names and slashes, typed after the start of a
\* URL: the forge with either scheme, another forge, the forge without scheme.
PathChars == {"a", "b", "/"}

\* Longest such path.
MaxPathLen == 6

HttpsGithub == <<"h", "t", "t", "p", "s", ":", "/", "/", "g", "i", "t", "h", "u", "b", ".", "c", "o", "m">>
HttpGithub == <<"h", "t", "t", "p", ":", "/", "/", "g", "i", "t", "h", "u", "b", ".", "c", "o", "m">>
HttpsGitlab == <<"h", "t", "t", "p", "s", ":", "/", "/", "g", "i", "t", "l", "a", "b", ".", "c", "o", "m">>

UrlPrefixes == {HttpsGithub, HttpGithub, HttpsGitlab, GithubHost}

ParseInputs ==
    SeqsUpTo(InputChars, MaxInputLen)
    \cup {p \o t : p \in UrlPrefixes, t \in SeqsUpTo(PathChars, MaxPathLen)}

\* ------------------------------------------------------------------- state

\* A nullable field holds null or one value.
null == <<>>
Some(x) == <<x>>

\* What generateContent returns as inline image data.
Images == {"imgA"}

\* What ai.models.generateContent rejects with.
GenRejections == {
    [name |-> "ApiError", message |-> EntityNotFoundMessage],
    [name |-> "ApiError", message |-> OverloadedMessage],
    [name |-> "NonError"]
}

\* How generateContent settles: a response with inline image data, a response
\* without any, or a rejection.
GenOutcomes ==
    [kind : {"image"}, data : Images]
    \cup [kind : {"noimage"}]
    \cup [kind : {"reject"}, error : GenRejections]

\* FLOW_STYLES[0], the initial selectedStyle
DefaultStyle == "Modern Data Flow"

\* Longest repo history the model lets grow.
MaxHistory == 2

VARIABLES
    repoInput,        \* RepoAnalyzer: useState('')
    loading,          \* RepoAnalyzer: useState(false)
    error,            \* RepoAnalyzer: useState<string | null>(null)
    loadingStage,     \* RepoAnalyzer: useState('')
    infographicData,  \* RepoAnalyzer: useState<string | null>(null)
    currentFileTree,  \* RepoAnalyzer: useState<RepoFileTree[] | null>(null)
    currentRepoName,  \* RepoAnalyzer: useState('')
    repoHistory,      \* App: useState<RepoHistoryItem[]>([])
    pc,               \* where the running handleAnalyze is suspended
    repoDetails,      \* handleAnalyze: const repoDetails
    branchIdx,        \* fetchRepoFileTree: the position of the for loop in branches
    requests,         \* the fetch() calls issued by the current fetchRepoFileTree call
    responses,        \* how each of them settled: its fetch(), then its json()
    fetchResult,      \* how the current fetchRepoFileTree call ended
    consoleLog,       \* console.warn / console.error of the current call
    genCalls,         \* generateInfographic calls of the current handleAnalyze
    currentView,      \* App: useState<ViewMode>(ViewMode.HOME)
    infographic3DData, \* RepoAnalyzer: useState<string | null>(null)
    generating3D,     \* RepoAnalyzer: useState(false)
    gen3D,            \* the suspended handleGenerate3D and the arguments it captured
    image3DRepo,      \* the repository infographic3DData was generated for
    aistudio,         \* whether window.aistudio (the AI Studio bridge) exists
    hasApiKey,        \* App: useState<boolean>(false)
    checkingKey,      \* App: useState<boolean>(true)
    isConnecting,     \* ApiKeyModal: useState(false)
    modalPc,          \* where handleConnect is suspended, or its timeout is pending
    showIntro,        \* App: useState(true)
    phase,            \* IntroAnimation: useState('warp')
    introTimers,      \* IntroAnimation: the timeouts of the effect that are pending
    onCompleteCalls,  \* how often IntroAnimation has called onComplete
    articlePc,        \* where generateArticleInfographic is suspended
    articleArgs,      \* generateArticleInfographic: url, style, language
    structuralSummary, \* generateArticleInfographic: let structuralSummary
    citations,        \* generateArticleInfographic: let citations
    analysisResponse, \* how the generateContent call of phase 1 settled
    articleCalls,     \* the generateContent calls generateArticleInfographic issued
    articleResult,    \* how generateArticleInfographic ended
    prevCall          \* the fetchRepoFileTree call before the current one

vars == <<repoInput, loading, error, loadingStage, infographicData, currentFileTree,
          currentRepoName, repoHistory, pc, repoDetails, branchIdx, requests,
          responses, fetchResult, consoleLog, genCalls, currentView, prevCall,
          infographic3DData, generating3D, gen3D, image3DRepo, aistudio, hasApiKey,
          checkingKey, isConnecting, modalPc, showIntro, phase, introTimers,
          onCompleteCalls, articlePc, articleArgs, structuralSummary, citations,
          analysisResponse, articleCalls, articleResult>>

\* The state of App's shell: the key check, the API-key modal and the intro.
shellVars == <<aistudio, hasApiKey, checkingKey, isConnecting, modalPc, showIntro,
               phase, introTimers, onCompleteCalls>>

\* The state of a generateArticleInfographic call.
articleVars == <<articlePc, articleArgs, structuralSummary, citations,
                 analysisResponse, articleCalls, articleResult>>

\* The state of the components the Repo Analyzer does not touch.
otherVars == <<shellVars, articleVars>>

\* The state of the 3D panel of RepoAnalyzer.
threeDVars == <<infographic3DData, generating3D, gen3D, image3DRepo>>

analyzerVars == <<loading, error, loadingStage, infographicData, currentFileTree,
                  currentRepoName>>

callVars == <<pc, repoDetails, branchIdx, requests, responses, fetchResult,
              consoleLog, genCalls>>

Pending == [kind |-> "pending"]

\* The body of a response whose json() was not called or has not settled.
NoBody == [kind |-> "none"]

\* The shell once a key is selected and the intro has completed: no modal and
\* no intro are rendered.
ShellSettled ==
    /\ aistudio = TRUE
    /\ hasApiKey = TRUE
    /\ checkingKey = FALSE
    /\ isConnecting = FALSE
    /\ modalPc = "idle"
    /\ showIntro = FALSE
    /\ phase = "reveal"
    /\ introTimers = {}
    /\ onCompleteCalls = 1

\* No generateArticleInfographic call has been made.
NoArticle ==
    /\ articlePc = "idle"
    /\ articleArgs = null
    /\ structuralSummary = <<>>
    /\ citations = <<>>
    /\ analysisResponse = Pending
    /\ articleCalls = <<>>
    /\ articleResult = Pending

\* No fetchRepoFileTree call has ended before the current one.
NoCall == [requests |-> <<>>, responses |-> <<>>, result |-> Pending]

\* enum ViewMode
ViewModes == {"HOME", "REPO_ANALYZER", "ARTICLE_INFOGRAPHIC"}

\* The state of a RepoAnalyzer that has just been mounted (App renders it while
\* currentView === ViewMode.REPO_ANALYZER) and of an App without history.
Init ==
    /\ currentView = "REPO_ANALYZER"
    /\ prevCall = NoCall
    /\ infographic3DData = null
    /\ generating3D = FALSE
    /\ gen3D = null
    /\ image3DRepo = null
    /\ ShellSettled
    /\ NoArticle
    /\ repoInput = <<>>
    /\ loading = FALSE
    /\ error = null
    /\ loadingStage = ""
    /\ infographicData = null
    /\ currentFileTree = null
    /\ currentRepoName = <<>>
    /\ repoHistory = <<>>
    /\ pc = "idle"
    /\ repoDetails = NoDetails
    /\ branchIdx = 0
    /\ requests = <<>>
    /\ responses = <<>>
    /\ fetchResult = Pending
    /\ consoleLog = <<>>
    /\ genCalls = 0

\* A variant of treeRequest that asks for the first candidate every time.
treeRequest_firstBranch(details, idx) ==
    [owner |-> details.owner, repo |-> details.repo, branch |-> branches[1]]

\* fetch(`https://api.github.com/repos/${owner}/${repo}/git/trees/${branch}?recursive=1`)
treeRequest(details, idx) ==
    [owner |-> details.owner, repo |-> details.repo, branch |-> branches[idx]]

\* err.message && ...: the error has a non-empty message
hasMessage(err) == "message" \in DOMAIN err /\ Len(err.message) > 0

\* handleApiError asks window.confirm about switching the key
asksToSwitchKey(err) == hasMessage(err) /\ includes(err.message, EntityNotFoundText)

\* A variant of errorText that shows the generic text for every error.
errorText_generic(err) == UnexpectedMessage

\* setError(err.message || 'An unexpected error occurred during analysis.')
errorText(err) == IF hasMessage(err) THEN err.message ELSE UnexpectedMessage

\* A variant of analyzeFailed without the finally block: the failure is shown
\* but loading is not cleared.
analyzeFailed_noFinally(err) ==
    /\ UNCHANGED <<loading, loadingStage>>
    /\ pc' = "idle"
    /\ repoDetails' = NoDetails
    /\ branchIdx' = 0
    /\ error' = Some(errorText(err))
    /\ UNCHANGED <<repoInput, infographicData, currentFileTree, currentRepoName,
                   repoHistory>>

\* handleAnalyze's catch and finally blocks: handleApiError(err), then loading
\* ends.  When the user confirms the billing dialog, window.location.reload()
\* discards the page's state.
analyzeFailed(err) ==
    /\ loading' = FALSE
    /\ loadingStage' = ""
    /\ pc' = "idle"
    /\ repoDetails' = NoDetails
    /\ branchIdx' = 0
    /\ \E confirmSwitch \in (IF asksToSwitchKey(err) THEN BOOLEAN ELSE {FALSE}) :
         IF confirmSwitch
         THEN /\ repoInput' = <<>>
              /\ error' = null
              /\ infographicData' = null
              /\ currentFileTree' = null
              /\ currentRepoName' = <<>>
              /\ repoHistory' = <<>>
         ELSE /\ error' = Some(errorText(err))
              /\ UNCHANGED <<repoInput, infographicData, currentFileTree,
                             currentRepoName, repoHistory>>

\* A variant of handleAnalyze whose fetchRepoFileTree remembers a failure: when
\* the analysis before left an error, it starts with the second candidate.
handleAnalyze_skipsAfterError(input) ==
    /\ pc = "idle"
    /\ ~loading
    /\ Len(trim(input)) > 0
    /\ Len(repoHistory) < MaxHistory
    /\ repoInput' = input
    /\ LET details == parseRepoInput(input)
           first == IF error # null THEN 2 ELSE 1
       IN  /\ infographicData' = null
           /\ currentFileTree' = null
           /\ requests' = IF details.ok THEN <<treeRequest(details, first)>> ELSE <<>>
           /\ responses' = <<>>
           /\ fetchResult' = Pending
           /\ consoleLog' = <<>>
           /\ genCalls' = 0
           /\ IF ~details.ok
              THEN /\ error' = Some(InvalidFormatMessage)
                   /\ UNCHANGED <<loading, loadingStage, currentRepoName, pc,
                                  repoDetails, branchIdx>>
              ELSE /\ error' = null
                   /\ loading' = TRUE
                   /\ currentRepoName' = details.repo
                   /\ loadingStage' = "CONNECTING TO GITHUB"
                   /\ repoDetails' = details
                   /\ branchIdx' = first
                   /\ pc' = "fetch"
    /\ UNCHANGED repoHistory

\* The user types input into the repository field (setRepoInput) and submits
\* the form: handleAnalyze, from the submit event to its first suspension, the
\* await of the fetch for branches[0] inside fetchRepoFileTree.  The submit
\* button is disabled while loading or while the field is blank.
handleAnalyze(input) ==
    /\ pc = "idle"
    /\ ~loading
    /\ Len(trim(input)) > 0
    /\ Len(repoHistory) < MaxHistory
    /\ repoInput' = input
    /\ LET details == parseRepoInput(input)
       IN  /\ infographicData' = null
           /\ currentFileTree' = null
           /\ requests' = IF details.ok THEN <<treeRequest(details, 1)>> ELSE <<>>
           /\ responses' = <<>>
           /\ fetchResult' = Pending
           /\ consoleLog' = <<>>
           /\ genCalls' = 0
           /\ IF ~details.ok
              THEN /\ error' = Some(InvalidFormatMessage)
                   /\ UNCHANGED <<loading, loadingStage, currentRepoName, pc,
                                  repoDetails, branchIdx>>
              ELSE /\ error' = null
                   /\ loading' = TRUE
                   /\ currentRepoName' = details.repo
                   /\ loadingStage' = "CONNECTING TO GITHUB"
                   /\ repoDetails' = details
                   /\ branchIdx' = 1
                   /\ pc' = "fetch"
    /\ UNCHANGED repoHistory


\* A variant of analyzeResumed without the test for an empty file list.
analyzeResumed_noEmptyCheck(fileTree) ==
    /\ currentFileTree' = Some(fileTree)
    /\ loadingStage' = "ANALYZING STRUCTURE & GENERATING"
    /\ genCalls' = genCalls + 1
    /\ pc' = "generate"
    /\ branchIdx' = 0
    /\ UNCHANGED <<repoInput, loading, error, infographicData, currentRepoName,
                   repoHistory, repoDetails>>

\* handleAnalyze after `await fetchRepoFileTree(...)` returned fileTree, up to
\* its next suspension: the await of generateContent inside generateInfographic.
analyzeResumed(fileTree) ==
    IF Len(fileTree) = 0
    THEN /\ analyzeFailed([name |-> "Error", message |-> NoFilesMessage])
         /\ UNCHANGED genCalls
    ELSE /\ currentFileTree' = Some(fileTree)
         /\ loadingStage' = "ANALYZING STRUCTURE & GENERATING"
         /\ genCalls' = genCalls + 1
         /\ pc' = "generate"
         /\ branchIdx' = 0
         /\ UNCHANGED <<repoInput, loading, error, infographicData, currentRepoName,
                        repoHistory, repoDetails>>

\* fetchRepoFileTree ends (returns or throws) and handleAnalyze goes on.
fetchEnded(res) ==
    /\ fetchResult' = res
    /\ UNCHANGED requests
    /\ IF res.kind = "throw"
       THEN analyzeFailed(res.error) /\ UNCHANGED genCalls
       ELSE analyzeResumed(res.value)

\* A variant of resumeFetch that requests the next candidate already while the
\* body of a successful response is being read.
resumeFetch_prefetch(r) ==
    /\ consoleLog' = consoleLog \o r.logs
    /\ CASE r.kind = "json" ->
              /\ pc' = "json"
              /\ requests' = IF branchIdx < Len(branches)
                             THEN Append(requests, treeRequest(repoDetails, branchIdx + 1))
                             ELSE requests
              /\ UNCHANGED <<repoInput, analyzerVars, repoHistory, repoDetails,
                             branchIdx, fetchResult, genCalls>>
         [] r.kind = "continue" /\ branchIdx < Len(branches) ->
              /\ branchIdx' = branchIdx + 1
              /\ requests' = Append(requests, treeRequest(repoDetails, branchIdx + 1))
              /\ pc' = "fetch"
              /\ UNCHANGED <<repoInput, analyzerVars, repoHistory, repoDetails,
                             fetchResult, genCalls>>
         [] r.kind = "continue" /\ branchIdx >= Len(branches) ->
              fetchEnded([kind |-> "throw", error |-> NotFoundError])
         [] r.kind = "throw" ->
              fetchEnded([kind |-> "throw", error |-> r.error])
         [] r.kind = "return" ->
              fetchEnded([kind |-> "return", value |-> r.value])

\* fetchRepoFileTree goes on after the part r of its loop body.
resumeFetch(r) ==
    /\ consoleLog' = consoleLog \o r.logs
    /\ CASE r.kind = "json" ->
              /\ pc' = "json"
              /\ UNCHANGED <<repoInput, analyzerVars, repoHistory, repoDetails,
                             branchIdx, requests, fetchResult, genCalls>>
         [] r.kind = "continue" /\ branchIdx < Len(branches) ->
              /\ branchIdx' = branchIdx + 1
              /\ requests' = Append(requests, treeRequest(repoDetails, branchIdx + 1))
              /\ pc' = "fetch"
              /\ UNCHANGED <<repoInput, analyzerVars, repoHistory, repoDetails,
                             fetchResult, genCalls>>
         [] r.kind = "continue" /\ branchIdx >= Len(branches) ->
              fetchEnded([kind |-> "throw", error |-> NotFoundError])
         [] r.kind = "throw" ->
              fetchEnded([kind |-> "throw", error |-> r.error])
         [] r.kind = "return" ->
              fetchEnded([kind |-> "return", value |-> r.value])

\* The pending fetch() settles.
fetchSettled(outcome) ==
    /\ pc = "fetch"
    /\ responses' = Append(responses, [fetch |-> outcome, body |-> NoBody])
    /\ resumeFetch(onFetchSettled(outcome, branchIdx))

\* The pending response.json() settles.
jsonSettled(body) ==
    /\ pc = "json"
    /\ responses' = [responses EXCEPT ![Len(responses)].body = body]
    /\ resumeFetch(onJsonSettled(body, branchIdx))

\* A variant of addToHistory that puts the new item after the existing ones.
addToHistory_appends(history, repoName, imageData, is3D, style) ==
    Append(history, [repoName |-> repoName, imageData |-> imageData, is3D |-> is3D,
                     style |-> style])

\* addToHistory / handleAddRepoHistory: setRepoHistory(prev => [item, ...prev])
addToHistory(history, repoName, imageData, is3D, style) ==
    <<[repoName |-> repoName, imageData |-> imageData, is3D |-> is3D,
       style |-> style]>> \o history

\* The pending generateContent of handleAnalyze's generateInfographic settles.
generateSettled(outcome) ==
    /\ pc = "generate"
    /\ UNCHANGED <<requests, responses, fetchResult, genCalls>>
    /\ IF outcome.kind = "image"
       THEN /\ infographicData' = Some(outcome.data)
            /\ repoHistory' = addToHistory(repoHistory, repoDetails.repo, outcome.data,
                                           FALSE, DefaultStyle)
            /\ loading' = FALSE
            /\ loadingStage' = ""
            /\ pc' = "idle"
            /\ repoDetails' = NoDetails
            /\ UNCHANGED <<repoInput, error, currentFileTree, currentRepoName,
                           branchIdx, consoleLog>>
       ELSE IF outcome.kind = "noimage"
       THEN /\ analyzeFailed([name |-> "Error", message |-> FailedVisualMessage])
            /\ UNCHANGED consoleLog
       ELSE /\ consoleLog' = Append(consoleLog, "error:gemini")
            /\ analyzeFailed(outcome.error)

\* What the start of handleAnalyze does outside the variables above:
\* setInfographic3DData(null).  A handleGenerate3D that is suspended stays so.
analysisStarts ==
    /\ infographic3DData' = null
    /\ image3DRepo' = null
    /\ UNCHANGED <<currentView, generating3D, gen3D, otherVars>>

\* The later parts of handleAnalyze leave the view, the 3D panel and the other
\* components alone.
analysisGoesOn == UNCHANGED <<currentView, threeDVars, otherVars>>

\* The user stays in the Repo Analyzer view.
Next ==
    \/ \E input \in RepoInputs : handleAnalyze(input) /\ analysisStarts /\ UNCHANGED prevCall
    \/ \E o \in FetchOutcomes : fetchSettled(o) /\ analysisGoesOn /\ UNCHANGED prevCall
    \/ \E b \in JsonOutcomes : jsonSettled(b) /\ analysisGoesOn /\ UNCHANGED prevCall
    \/ \E o \in GenOutcomes : generateSettled(o) /\ analysisGoesOn /\ UNCHANGED prevCall

Spec == Init /\ [][Next]_vars

\* ------------------------------------------- one call after another (C11)

\* What the remote answers while it does not change between two calls: a tree,
\* not found, rate limited, unreachable, or a body that is no JSON.
RepeatFetchOutcomes ==
    [kind : {"response"}, status : {200, 403, 404}]
    \cup [kind : {"reject"}, error : FetchRejections]

RepeatJsonOutcomes == {
    [kind |-> "object", hasTree |-> TRUE, tree |-> ExampleTree, truncated |-> FALSE],
    [kind |-> "reject", error |-> [name |-> "SyntaxError", message |-> JsonHtmlMessage]]
}

RepeatGenOutcomes == {[kind |-> "noimage"]}

\* The fetchRepoFileTree call that has just ended, as the next call will
\* remember it: its requests, how they were answered, and how it ended.
lastCall ==
    IF fetchResult = Pending
    THEN prevCall
    ELSE [requests |-> requests, responses |-> responses, result |-> fetchResult]

\* The user analyses one repository after another; the call before the current
\* one is kept for comparison.
RepeatNext ==
    \/ \E input \in RepoInputs :
           handleAnalyze(input) /\ analysisStarts /\ prevCall' = lastCall
    \/ \E o \in RepeatFetchOutcomes : fetchSettled(o) /\ analysisGoesOn /\ UNCHANGED prevCall
    \/ \E b \in RepeatJsonOutcomes : jsonSettled(b) /\ analysisGoesOn /\ UNCHANGED prevCall
    \/ \E o \in RepeatGenOutcomes : generateSettled(o) /\ analysisGoesOn /\ UNCHANGED prevCall

RepeatSpec == Init /\ [][RepeatNext]_vars

\* ------------------------------------------ what the user may type (C13, C14)

ParseFetchOutcomes == [kind : {"response"}, status : {403, 404}]

\* One text typed into the empty field of a new RepoAnalyzer and submitted; the
\* requests that follow are answered not-found or rate-limited.
ParseNext ==
    \/ /\ repoInput = <<>>
       /\ \E input \in ParseInputs : handleAnalyze(input)
       /\ analysisStarts
       /\ UNCHANGED prevCall
    \/ \E o \in ParseFetchOutcomes : fetchSettled(o) /\ analysisGoesOn /\ UNCHANGED prevCall

ParseSpec == Init /\ [][ParseNext]_vars

\* ------------------------------------------------ leaving the view (C12)

\* App after construction: the home view, no RepoAnalyzer mounted yet.
AppInit ==
    /\ currentView = "HOME"
    /\ prevCall = NoCall
    /\ infographic3DData = null
    /\ generating3D = FALSE
    /\ gen3D = null
    /\ image3DRepo = null
    /\ ShellSettled
    /\ NoArticle
    /\ repoInput = <<>>
    /\ loading = FALSE
    /\ error = null
    /\ loadingStage = ""
    /\ infographicData = null
    /\ currentFileTree = null
    /\ currentRepoName = <<>>
    /\ repoHistory = <<>>
    /\ pc = "idle"
    /\ repoDetails = NoDetails
    /\ branchIdx = 0
    /\ requests = <<>>
    /\ responses = <<>>
    /\ fetchResult = Pending
    /\ consoleLog = <<>>
    /\ genCalls = 0

\* handleNavigate / the navigation buttons: setCurrentView(mode).  App renders
\* RepoAnalyzer only while currentView === ViewMode.REPO_ANALYZER, so entering
\* that view mounts a new RepoAnalyzer with its initial state and leaving it
\* unmounts the component.  Nothing cancels a handleAnalyze that is suspended:
\* it goes on with the state setters and the onAddToHistory it has captured.
\* The analyzer variables follow one component at a time: after an unmount
\* they are the state of the discarded component, which React no longer
\* renders, and a new one is mounted only once no call is pending.
handleNavigate(mode) ==
    /\ currentView' = mode
    /\ IF mode = "REPO_ANALYZER" /\ currentView # "REPO_ANALYZER"
       THEN /\ pc = "idle"
            /\ repoInput' = <<>>
            /\ loading' = FALSE
            /\ error' = null
            /\ loadingStage' = ""
            /\ infographicData' = null
            /\ currentFileTree' = null
            /\ currentRepoName' = <<>>
       ELSE UNCHANGED <<repoInput, analyzerVars>>
    /\ UNCHANGED <<repoHistory, callVars>>

NavGenOutcomes == [kind : {"image"}, data : Images] \cup [kind : {"noimage"}]

\* The user moves between the views; the form can be submitted only while
\* RepoAnalyzer is mounted.
NavNext ==
    \/ \E mode \in ViewModes : handleNavigate(mode) /\ UNCHANGED <<prevCall, threeDVars, otherVars>>
    \/ /\ currentView = "REPO_ANALYZER"
       /\ \E input \in RepoInputs : handleAnalyze(input)
       /\ analysisStarts
       /\ UNCHANGED prevCall
    \/ \E o \in RepeatFetchOutcomes : fetchSettled(o) /\ analysisGoesOn /\ UNCHANGED prevCall
    \/ \E b \in RepeatJsonOutcomes : jsonSettled(b) /\ analysisGoesOn /\ UNCHANGED prevCall
    \/ \E o \in NavGenOutcomes : generateSettled(o) /\ analysisGoesOn /\ UNCHANGED prevCall

NavSpec == AppInit /\ [][NavNext]_vars

\* -------------------------------------- every awaited call settles (C24)

LiveFetchOutcomes == [kind : {"response"}, status : {200, 403, 404}]

\* A tree with a code file and a tree without one.
LiveJsonOutcomes == {
    [kind |-> "object", hasTree |-> TRUE, tree |-> ExampleTree, truncated |-> FALSE],
    [kind |-> "object", hasTree |-> TRUE,
     tree |-> <<[path |-> P_readme, type |-> "blob"]>>, truncated |-> FALSE]
}

fetchSettles ==
    \E o \in LiveFetchOutcomes : fetchSettled(o) /\ analysisGoesOn /\ UNCHANGED prevCall

jsonSettles ==
    \E b \in LiveJsonOutcomes : jsonSettled(b) /\ analysisGoesOn /\ UNCHANGED prevCall

generateSettles ==
    \E o \in GenOutcomes : generateSettled(o) /\ analysisGoesOn /\ UNCHANGED prevCall

LiveNext ==
    \/ \E input \in RepoInputs : handleAnalyze(input) /\ analysisStarts /\ UNCHANGED prevCall
    \/ fetchSettles
    \/ jsonSettles
    \/ generateSettles

\* Every fetch(), response.json() and generateContent that is awaited settles
\* in the end.
LiveSpec ==
    /\ Init
    /\ [][LiveNext]_vars
    /\ WF_vars(fetchSettles)
    /\ WF_vars(jsonSettles)
    /\ WF_vars(generateSettles)

\* ------------------------------------------ the whole Repo Analyzer (C22-C26)

\* The image data of a 3D generation.
Images3D == {"img3D"}

\* How generateContent of handleGenerate3D's generateInfographic settles.
Gen3DOutcomes ==
    [kind : {"image"}, data : Images3D]
    \cup [kind : {"noimage"}]
    \cup [kind : {"reject"}, error : {[name |-> "ApiError", message |-> OverloadedMessage]}]

\* The user clicks the button of the 3D panel, which is rendered while a 2D
\* infographic is shown (infographicData && !loading) and neither a 3D image
\* nor its spinner is: handleGenerate3D up to its suspension at the await of
\* generateInfographic(currentRepoName, currentFileTree, ...).
handleGenerate3D ==
    /\ infographicData # null
    /\ ~loading
    /\ infographic3DData = null
    /\ ~generating3D
    /\ gen3D = null
    /\ Len(repoHistory) < MaxHistory
    /\ IF currentFileTree = null \/ Len(currentRepoName) = 0
       THEN UNCHANGED <<generating3D, gen3D>>
       ELSE /\ generating3D' = TRUE
            /\ gen3D' = Some([repoName |-> currentRepoName,
                              fileTree |-> currentFileTree[1]])
    /\ UNCHANGED <<repoInput, analyzerVars, repoHistory, callVars, currentView,
                   prevCall, infographic3DData, image3DRepo>>

\* The pending generateContent of handleGenerate3D settles: with an image it is
\* shown and added to the history under the repository name the call captured;
\* without one nothing is shown; a rejection goes to handleApiError (and, when
\* the user confirms the billing dialog, to window.location.reload()).
\* consoleLog follows the handleAnalyze call only, so the console.error of this
\* call's generateInfographic is not kept.
generate3DSettled(outcome) ==
    /\ gen3D # null
    /\ IF outcome.kind = "image"
       THEN /\ infographic3DData' = Some(outcome.data)
            /\ image3DRepo' = Some(gen3D[1].repoName)
            /\ repoHistory' = addToHistory(repoHistory, gen3D[1].repoName,
                                           outcome.data, TRUE, DefaultStyle)
            /\ generating3D' = FALSE
            /\ gen3D' = null
            /\ UNCHANGED <<repoInput, analyzerVars, callVars, currentView, prevCall>>
       ELSE IF outcome.kind = "noimage"
       THEN /\ generating3D' = FALSE
            /\ gen3D' = null
            /\ UNCHANGED <<repoInput, analyzerVars, repoHistory, callVars,
                           currentView, prevCall, infographic3DData, image3DRepo>>
       ELSE \E confirmSwitch \in (IF asksToSwitchKey(outcome.error)
                                  THEN BOOLEAN ELSE {FALSE}) :
              /\ generating3D' = FALSE
              /\ gen3D' = null
              /\ UNCHANGED <<requests, responses, fetchResult, consoleLog, genCalls,
                             currentView, prevCall>>
              /\ IF confirmSwitch
                 THEN /\ repoInput' = <<>>
                      /\ loading' = FALSE
                      /\ loadingStage' = ""
                      /\ error' = null
                      /\ infographicData' = null
                      /\ currentFileTree' = null
                      /\ currentRepoName' = <<>>
                      /\ repoHistory' = <<>>
                      /\ pc' = "idle"
                      /\ repoDetails' = NoDetails
                      /\ branchIdx' = 0
                      /\ infographic3DData' = null
                      /\ image3DRepo' = null
                 ELSE /\ error' = Some(errorText(outcome.error))
                      /\ UNCHANGED <<repoInput, loading, loadingStage,
                                     infographicData, currentFileTree,
                                     currentRepoName, repoHistory, pc, repoDetails,
                                     branchIdx, infographic3DData, image3DRepo>>

\* The user clicks an item of the history list (rendered while the history is
\* not empty): loadFromHistory(item).
loadFromHistory(item) ==
    /\ \E k \in 1..Len(repoHistory) : repoHistory[k] = item
    /\ currentRepoName' = item.repoName
    /\ IF item.is3D
       THEN /\ infographic3DData' = Some(item.imageData)
            /\ image3DRepo' = Some(item.repoName)
            /\ UNCHANGED infographicData
       ELSE /\ infographicData' = Some(item.imageData)
            /\ infographic3DData' = null
            /\ image3DRepo' = null
    /\ UNCHANGED <<repoInput, loading, error, loadingStage, currentFileTree,
                   repoHistory, callVars, currentView, prevCall, generating3D, gen3D>>

\* handleNavigate for a RepoAnalyzer with its 3D panel: a newly mounted
\* component has no 3D image; as for the analysis, one is mounted only once no
\* handleGenerate3D is pending.
viewChanges(mode) ==
    /\ handleNavigate(mode)
    /\ IF mode = "REPO_ANALYZER" /\ currentView # "REPO_ANALYZER"
       THEN /\ gen3D = null
            /\ infographic3DData' = null
            /\ image3DRepo' = null
            /\ generating3D' = FALSE
            /\ UNCHANGED gen3D
       ELSE UNCHANGED threeDVars
    /\ UNCHANGED prevCall

StudioFetchOutcomes == [kind : {"response"}, status : {200, 403}]

StudioJsonOutcomes == {
    [kind |-> "object", hasTree |-> TRUE, tree |-> ExampleTree, truncated |-> FALSE]
}

\* The user works with the Repo Analyzer: analyses, 3D generations, items
\* loaded from the history, and moves between the views.
StudioNext ==
    \/ \E mode \in ViewModes : viewChanges(mode) /\ UNCHANGED otherVars
    \/ /\ currentView = "REPO_ANALYZER"
       /\ \E input \in RepoInputs : handleAnalyze(input)
       /\ analysisStarts
       /\ UNCHANGED prevCall
    \/ \E o \in StudioFetchOutcomes : fetchSettled(o) /\ analysisGoesOn /\ UNCHANGED prevCall
    \/ \E b \in StudioJsonOutcomes : jsonSettled(b) /\ analysisGoesOn /\ UNCHANGED prevCall
    \/ \E o \in NavGenOutcomes : generateSettled(o) /\ analysisGoesOn /\ UNCHANGED prevCall
    \/ currentView = "REPO_ANALYZER" /\ handleGenerate3D /\ UNCHANGED otherVars
    \/ \E o \in Gen3DOutcomes : generate3DSettled(o) /\ UNCHANGED otherVars
    \/ /\ currentView = "REPO_ANALYZER"
       /\ \E k \in 1..Len(repoHistory) : loadFromHistory(repoHistory[k])
       /\ UNCHANGED otherVars

StudioSpec == AppInit /\ [][StudioNext]_vars

\* ------------------------------------------------------------------ claims

\* The i-th request of the current call got a response with a rate-limit status.
rateLimited(i) ==
    /\ responses[i].fetch.kind = "response"
    /\ responses[i].fetch.status \in {403, 429}

\* The i-th request of the current call got a response with status st.
hasStatus(i, st) ==
    /\ responses[i].fetch.kind = "response"
    /\ responses[i].fetch.status = st

\* The i-th request of the current call got an ok response whose body parsed to
\* a JSON object (with or without a tree).
gotTree(i) ==
    /\ responses[i].fetch.kind = "response"
    /\ responseOk(responses[i].fetch.status)
    /\ responses[i].body.kind = "object"

\* data.tree || [] of the i-th response
treeOf(i) == IF responses[i].body.hasTree THEN responses[i].body.tree ELSE <<>>

Returned(list) == [kind |-> "return", value |-> list]
Thrown(err) == [kind |-> "throw", error |-> err]

\* C1: a response with status 403 or 429 for any candidate makes the call fail
\* at once with the RateLimited error; the request that got it is the last one
\* issued (no request for a remaining candidate, no retry of the same one).
C1_RateLimitAborts ==
    \A i \in 1..Len(responses) :
        rateLimited(i) =>
            /\ fetchResult = Thrown(RateLimitedError)
            /\ Len(requests) = i
            /\ \A j \in 1..i : \A k \in 1..i : requests[j] = requests[k] => j = k

\* C1 witness: "main" was answered 403, the call has failed, "master" was never
\* requested.
C1_Witness ==
    /\ Len(responses) = 1
    /\ hasStatus(1, 403)
    /\ requests[1].branch = Main
    /\ fetchResult.kind = "throw"

\* C2: a successful tree response for "main" makes the call return the filtered
\* tree of that response, and "main" stays the only request.
C2_MainSuccessReturns ==
    (Len(responses) >= 1 /\ gotTree(1)) =>
        /\ fetchResult = Returned(SelectSeq(treeOf(1), keepItem))
        /\ Len(requests) = 1
        /\ requests[1].branch = Main

\* C2 witness: "main" answered with ExampleTree and the call returned one entry.
C2_Witness ==
    /\ Len(responses) = 1
    /\ gotTree(1)
    /\ treeOf(1) = ExampleTree
    /\ fetchResult.kind = "return"
    /\ Len(fetchResult.value) = 1

\* C3: "main" answered 404 and "master" answered a successful tree response:
\* the call returns exactly the filtered tree of the "master" response.
C3_MasterFallback ==
    (Len(responses) = 2 /\ hasStatus(1, 404) /\ gotTree(2)) =>
        /\ requests[1].branch = Main
        /\ requests[2].branch = Master
        /\ fetchResult = Returned(SelectSeq(treeOf(2), keepItem))
        /\ \A k \in 1..Len(fetchResult.value) :
               \E j \in 1..Len(treeOf(2)) : fetchResult.value[k] = treeOf(2)[j]

\* C3 witness: 404 for "main", ExampleTree for "master", one entry returned.
C3_Witness ==
    /\ Len(responses) = 2
    /\ hasStatus(1, 404)
    /\ gotTree(2)
    /\ treeOf(2) = ExampleTree
    /\ fetchResult = Returned(<<[path |-> P_src_index_ts, type |-> "blob"]>>)

\* The i-th request of the current call got no ok response (another status, or
\* the fetch was rejected).
notOk(i) ==
    \/ responses[i].fetch.kind = "reject"
    \/ ~responseOk(responses[i].fetch.status)

\* C4: when every candidate was requested and none got an ok response or a
\* rate-limit response, the call fails with the NotFound error; and the message
\* of a NotFound error contains "main" and "master".
C4_ExhaustedIsNotFound ==
    /\ (/\ fetchResult.kind # "pending"
        /\ Len(responses) = Len(branches)
        /\ \A i \in 1..Len(responses) : notOk(i) /\ ~rateLimited(i))
       => /\ fetchResult.kind = "throw"
          /\ fetchResult.error.name = "Error"
          /\ startsWith(fetchResult.error.message, NotFoundPrefix)
    /\ (fetchResult.kind = "throw" /\ startsWith(fetchResult.error.message, NotFoundPrefix))
       => /\ includes(fetchResult.error.message, Main)
          /\ includes(fetchResult.error.message, Master)

\* C4 witness: 404 for "main" and for "master"; the call failed and the caller
\* shows a message that names both branches.
C4_Witness ==
    /\ Len(responses) = 2
    /\ hasStatus(1, 404)
    /\ hasStatus(2, 404)
    /\ fetchResult.kind = "throw"
    /\ error # null
    /\ includes(error[1], Main \o JoinSeparator \o Master)

\* C5: whatever the candidates' outcomes, a call that fails fails with the
\* RateLimited error or the NotFound error.
C5_OnlyTwoErrors ==
    fetchResult.kind = "throw" => fetchResult.error \in {RateLimitedError, NotFoundError}

\* C6: every entry of the returned list is an entry of the successful response's
\* tree, is a blob, ends in a recognized extension whatever the case of its
\* letters, contains none of node_modules, dist/, build/, and has no leading dot.
C6_ReturnedEntriesPassFilter ==
    fetchResult.kind = "return" =>
        \A k \in 1..Len(fetchResult.value) :
            LET item == fetchResult.value[k]
            IN  /\ \E j \in 1..Len(treeOf(Len(responses))) :
                       treeOf(Len(responses))[j] = item
                /\ item.type = "blob"
                /\ LET lower == toLowerCase(item.path)
                   IN  \E ext \in Extensions : endsWith(lower, <<".">> \o ext)
                /\ ~includes(item.path, NodeModulesMarker)
                /\ ~includes(item.path, DistMarker)
                /\ ~includes(item.path, BuildMarker)
                /\ item.path[1] # "."

\* C6 witness: the call returned the entry SRC/MAIN.PY, whose extension is in
\* upper case.
C6_Witness ==
    /\ fetchResult = Returned(<<[path |-> P_upper_py, type |-> "blob"]>>)
    /\ gotTree(Len(responses))

\* The directory segments of a path: the parts between slashes but the last.
dirSegments(path) == SubSeq(split(path), 1, Len(split(path)) - 1)

VendorOrOutputDirs == {NodeModulesMarker, <<"d", "i", "s", "t">>, <<"b", "u", "i", "l", "d">>}

\* The FilteredFileList of the data model read by path segments: a blob with a
\* recognized extension, no directory segment named node_modules, dist or
\* build, and no leading dot.
inFilteredFileList(item) ==
    /\ item.type = "blob"
    /\ matchesExtension(item.path)
    /\ \A i \in 1..Len(dirSegments(item.path)) :
           dirSegments(item.path)[i] \notin VendorOrOutputDirs
    /\ item.path[1] # "."

\* C7: the returned list is exactly the FilteredFileList of the response tree
\* (no entry is dropped because a name merely contains the text of an excluded
\* marker), and for the example tree it is src/index.ts alone.
C7_ExactlyFilteredFileList ==
    (fetchResult.kind = "return" /\ gotTree(Len(responses))) =>
        /\ fetchResult.value = SelectSeq(treeOf(Len(responses)), inFilteredFileList)
        /\ treeOf(Len(responses)) = ExampleTree =>
               fetchResult.value = <<[path |-> P_src_index_ts, type |-> "blob"]>>

\* C8 as claimed: no returned entry has a directory segment that begins with a
\* dot, wherever in the path the segment is.
C8_NoHiddenSegmentAnywhere ==
    fetchResult.kind = "return" =>
        \A k \in 1..Len(fetchResult.value) :
            \A i \in 1..Len(dirSegments(fetchResult.value[k].path)) :
                ~startsWith(dirSegments(fetchResult.value[k].path)[i], DotMarker)

\* C8 as amended: no returned entry has a path that begins with a dot; a
\* dot-segment deeper in the path does not exclude an entry (src/.github/ci.yml
\* is returned when the tree holds it).
C8_NoLeadingDot ==
    fetchResult.kind = "return" =>
        /\ \A k \in 1..Len(fetchResult.value) : fetchResult.value[k].path[1] # "."
        /\ \A j \in 1..Len(treeOf(Len(responses))) :
               treeOf(Len(responses))[j] = [path |-> P_github_ci_yml, type |-> "blob"]
               => \E k \in 1..Len(fetchResult.value) :
                      fetchResult.value[k] = treeOf(Len(responses))[j]

\* C8 witness: the tree held .eslintrc.json, a blob with a recognized extension
\* and a leading dot, and the call returned without it.
C8_Witness ==
    /\ Len(responses) >= 1
    /\ gotTree(Len(responses))
    /\ treeOf(Len(responses)) = <<[path |-> P_eslintrc_json, type |-> "blob"]>>
    /\ fetchResult = Returned(<<>>)

\* The number of truncation warnings in the log of the current call.
warnings == Cardinality({k \in DOMAIN consoleLog : consoleLog[k] = "warn:truncated"})

\* The number of parsed bodies of the current call with the truncated flag set.
truncatedBodies ==
    Cardinality({i \in DOMAIN responses :
                    /\ responses[i].body.kind \in {"object", "badtree"}
                    /\ responses[i].body.truncated})

\* C9: a successful response with the truncated flag makes the call return the
\* filtered tree, as without the flag, and raise nothing; the flag shows only as
\* one warning in the log per truncated body.
C9_TruncatedOnlyWarns ==
    /\ \A i \in 1..Len(responses) :
           gotTree(i) =>
               /\ fetchResult = Returned(SelectSeq(treeOf(i), keepItem))
               /\ Len(requests) = i
    /\ warnings = truncatedBodies

\* C9 witness: "main" answered ExampleTree with truncated set; the call returned
\* src/index.ts and logged the warning.
C9_Witness ==
    /\ Len(responses) = 1
    /\ gotTree(1)
    /\ responses[1].body.truncated
    /\ treeOf(1) = ExampleTree
    /\ fetchResult = Returned(<<[path |-> P_src_index_ts, type |-> "blob"]>>)
    /\ consoleLog = <<"warn:truncated">>

\* C10: a successful response whose tree filters to the empty list (or that has
\* no tree) makes the call return the empty list with no further request;
\* handleAnalyze then ends with the error 'No relevant code files found in this
\* repository.' and has not called generateInfographic.
C10_EmptyListReportedByCaller ==
    \A i \in 1..Len(responses) :
        (gotTree(i) /\ \A j \in 1..Len(treeOf(i)) : ~keepItem(treeOf(i)[j])) =>
            /\ fetchResult = Returned(<<>>)
            /\ Len(requests) = i
            /\ error = Some(NoFilesMessage)
            /\ genCalls = 0
            /\ pc = "idle"
            /\ ~loading

\* C10 witness: "main" answered a tree holding only README.md; the analysis
\* ended with the no-files error and "master" was not requested.
C10_Witness ==
    /\ Len(responses) = 1
    /\ gotTree(1)
    /\ treeOf(1) = <<[path |-> P_readme, type |-> "blob"]>>
    /\ fetchResult = Returned(<<>>)
    /\ error = Some(NoFilesMessage)
    /\ genCalls = 0

\* The remote is unchanged between the previous call and the current one: a
\* request both calls issued got the same response (and body) in both.
sameRemote ==
    \A i \in 1..Len(prevCall.responses) : \A j \in 1..Len(responses) :
        prevCall.requests[i] = requests[j] => prevCall.responses[i] = responses[j]

\* C11: two calls of fetchRepoFileTree with the same owner and repo against an
\* unchanged remote issue the same sequence of requests and end the same way
\* (the same list returned, or the same error): the earlier call leaves nothing
\* behind that changes the later one.
C11_CallsAreRepeatable ==
    (/\ prevCall # NoCall
     /\ fetchResult # Pending
     /\ prevCall.requests[1].owner = requests[1].owner
     /\ prevCall.requests[1].repo = requests[1].repo
     /\ sameRemote) =>
        /\ requests = prevCall.requests
        /\ fetchResult = prevCall.result

\* C11 witness: the call before failed with not-found after asking for "main"
\* and "master"; the current call for the same repository, answered the same
\* way, has issued the same two requests and failed the same way.
C11_Witness ==
    /\ prevCall # NoCall
    /\ Len(prevCall.requests) = 2
    /\ prevCall.result = Thrown(NotFoundError)
    /\ error = Some(NotFoundError.message)
    /\ fetchResult = prevCall.result
    /\ requests = prevCall.requests
    /\ responses = prevCall.responses

\* C12: once the user has left the Repo Analyzer view, a response that arrives
\* for the abandoned analysis changes nothing the application shows: no step
\* taken outside that view changes the App-level repo history.  (The state
\* setters of the unmounted RepoAnalyzer have no visible effect; the history
\* belongs to App, which stays mounted.)
C12_NoMutationAfterAbandon ==
    [][currentView # "REPO_ANALYZER" => repoHistory' = repoHistory]_vars

\* C13: fetchRepoFileTree is called only with an owner and a repo that are both
\* non-empty, the ones parseRepoInput made of the text submitted; a text it
\* cannot parse leaves the error 'Invalid format...', no request and loading
\* false.
C13_OnlyValidatedReference ==
    /\ \A i \in 1..Len(requests) :
           /\ Len(requests[i].owner) > 0
           /\ Len(requests[i].repo) > 0
           /\ requests[i].owner = parseRepoInput(repoInput).owner
           /\ requests[i].repo = parseRepoInput(repoInput).repo
    /\ (repoInput # <<>> /\ ~parseRepoInput(repoInput).ok) =>
           /\ error = Some(InvalidFormatMessage)
           /\ requests = <<>>
           /\ ~loading
           /\ pc = "idle"

\* C13 witness: "/b", two parts of which the first is empty, was submitted and
\* refused without a request.
C13_Witness ==
    /\ repoInput = <<"/", "b">>
    /\ error = Some(InvalidFormatMessage)
    /\ requests = <<>>
    /\ ~loading

\* The names of owners and repositories the inputs are made of.
Names == SeqsUpTo({"a", "b"}, 2) \ {<<>>}

Slash == <<"/">>

\* The bare forms of owner o and repository r: "o/r", with a trailing slash,
\* with blanks around it.
bareForms(o, r) ==
    {o \o Slash \o r, o \o Slash \o r \o Slash, <<" ">> \o o \o Slash \o r \o <<" ">>}

\* The URL forms of owner o and repository r on the forge: the plain URL, with
\* a trailing slash, with further segments, with empty segments.
urlForms(o, r) ==
    LET plain == Slash \o o \o Slash \o r
    IN  {p \o t : p \in {HttpsGithub, HttpGithub},
                  t \in {plain, plain \o Slash, plain \o Slash \o Slash,
                         Slash \o plain, Slash \o plain \o Slash,
                         Slash \o o \o Slash \o Slash \o r}
                        \cup {plain \o Slash \o x : x \in Names}
                        \cup {plain \o Slash \o x \o Slash : x \in Names}}

\* Every such form with the owner and the repository it was made of.
expectedParse ==
    UNION {{[input |-> f, owner |-> o, repo |-> r] :
               f \in bareForms(o, r) \cup urlForms(o, r)} : o \in Names, r \in Names}

\* C14: a bare "owner/repo" text is parsed into those two parts, and a URL of
\* the forge into the first two non-empty segments of its path; a trailing
\* slash, further segments and empty segments do not change the result.
C14_ParsesOwnerAndRepo ==
    \A e \in expectedParse :
        repoInput = e.input =>
            /\ Len(requests) >= 1
            /\ requests[1].owner = e.owner
            /\ requests[1].repo = e.repo

\* C14 witness: "https://github.com//a/b/" (an empty segment and a trailing
\* slash) was submitted and "main" of a/b is being requested.
C14_Witness ==
    /\ repoInput = HttpsGithub \o <<"/", "/", "a", "/", "b", "/">>
    /\ pc = "fetch"
    /\ requests = <<[owner |-> <<"a">>, repo |-> <<"b">>, branch |-> Main]>>

\* C15: the step in which fetchRepoFileTree fails with the RateLimited or the
\* NotFound error leaves exactly that error's message as the error shown, no
\* generateInfographic call, no infographic, the history as it was, and loading
\* false.
C15_FetchFailureShownVerbatim ==
    [][\A e \in {RateLimitedError, NotFoundError} :
          (fetchResult = Pending /\ fetchResult' = Thrown(e)) =>
              /\ error' = Some(e.message)
              /\ genCalls' = 0
              /\ infographicData' = null
              /\ repoHistory' = repoHistory
              /\ ~loading'
              /\ loadingStage' = ""
              /\ pc' = "idle"]_vars

\* C15 witness: after one analysis that succeeded, the next one was rate
\* limited: its message is shown, the history still holds the one item.
C15_Witness ==
    /\ fetchResult = Thrown(RateLimitedError)
    /\ error = Some(RateLimitMessage)
    /\ Len(repoHistory) = 1
    /\ infographicData = null
    /\ genCalls = 0
    /\ ~loading

\* The i-th request of the current call got a response that indicates success
\* (response.ok), whatever its body.
okResponse(i) ==
    /\ responses[i].fetch.kind = "response"
    /\ responseOk(responses[i].fetch.status)

transientOnMain ==
    /\ Len(responses) >= 1
    /\ \/ responses[1].fetch.kind = "reject"
       \/ okResponse(1) /\ responses[1].body.kind \in {"reject", "null", "badtree"}

\* C17: a transient error on "main" is not surfaced: the call goes on to request
\* "master", and when "master" answers with a tree the call returns its filtered
\* list.
C17_TransientOnMainAbsorbed ==
    transientOnMain =>
        /\ Len(requests) = 2
        /\ requests[2].branch = Master
        /\ (Len(responses) = 2 /\ gotTree(2)) =>
               fetchResult = Returned(SelectSeq(treeOf(2), keepItem))

\* C18: when the request for "master", the final candidate, fails at the
\* network level (fetch rejects), the call fails with the NotFound error that
\* lists the branches tried, not with the network error.
C18_NetworkErrorOnFinalIsNotFound ==
    (Len(responses) = 2 /\ responses[2].fetch.kind = "reject") =>
        /\ requests[2].branch = Master
        /\ fetchResult.kind = "throw"
        /\ fetchResult.error # responses[2].fetch.error
        /\ fetchResult.error.name = "Error"
        /\ startsWith(fetchResult.error.message, NotFoundPrefix)
        /\ includes(fetchResult.error.message, Main)
        /\ includes(fetchResult.error.message, Master)

\* C18 witness: the network is down for both requests; the call failed with the
\* NotFound error and logged the error of the final candidate.
C18_Witness ==
    /\ Len(responses) = 2
    /\ responses[1].fetch.kind = "reject"
    /\ responses[2].fetch = [kind |-> "reject",
                             error |-> [name |-> "TypeError",
                                        message |-> FailedToFetchMessage]]
    /\ fetchResult = Thrown(NotFoundError)
    /\ consoleLog = <<"error:fetch">>

\* The requests of the current call that have not been answered yet.
inFlight == Len(requests) - Len(responses)

\* C19: the candidates are requested one after the other, "main" first and then
\* "master": at most one request is in flight, "master" is requested only once
\* the outcome for "main" is known, no candidate is requested twice, and a call
\* issues at most two requests.
C19_SequentialCandidates ==
    /\ Len(requests) <= Len(branches)
    /\ \A i \in 1..Len(requests) : requests[i].branch = branches[i]
    /\ inFlight \in {0, 1}
    /\ inFlight = 1 <=> pc = "fetch"
    /\ Len(requests) = 2 =>
           /\ Len(responses) >= 1
           /\ okResponse(1) => responses[1].body.kind # "none"

\* C19 witness: "main" was answered 500 and the request for "master" is the only
\* one in flight.
C19_Witness ==
    /\ Len(requests) = 2
    /\ Len(responses) = 1
    /\ hasStatus(1, 500)
    /\ requests[2].branch = Master
    /\ pc = "fetch"

\* a is a subsequence of b: b with some entries left out, the others unchanged
\* and in the order they have in b.
RECURSIVE isSubsequence(_, _)
isSubsequence(a, b) ==
    IF Len(a) = 0 THEN TRUE
    ELSE IF Len(b) = 0 THEN FALSE
    ELSE IF Head(a) = Head(b) THEN isSubsequence(Tail(a), Tail(b))
    ELSE isSubsequence(a, Tail(b))

\* C20: the list a call returns is a subsequence of the tree of the response
\* that succeeded: its entries are entries of that tree, unaltered, in the same
\* relative order and no more often than there.
C20_ReturnedIsSubsequence ==
    fetchResult.kind = "return" =>
        isSubsequence(fetchResult.value, treeOf(Len(responses)))

\* C20 witness: the response held MAIN.PY, README.md and src/index.ts twice; the
\* call returned MAIN.PY followed by src/index.ts twice.
C20_Witness ==
    /\ Len(responses) >= 1
    /\ gotTree(Len(responses))
    /\ treeOf(Len(responses)) = OrderTree
    /\ fetchResult = Returned(<<[path |-> P_upper_py, type |-> "blob"],
                                [path |-> P_src_index_ts, type |-> "blob"],
                                [path |-> P_src_index_ts, type |-> "blob"]>>)

(***************************************************************************)
(* App.tsx, components/ApiKeyModal.tsx and components/IntroAnimation.tsx:   *)
(* the key check on mount, the API-key modal and the intro animation.  A    *)
(* pending setTimeout is a member of a set; timeouts set in one effect run  *)
(* fire in the order of their delays.                                       *)
(***************************************************************************)

\* The state of the Repo Analyzer and of the calls it makes.
repoVars == <<repoInput, repoHistory, analyzerVars, callVars, threeDVars, prevCall>>

\* The four timeouts of IntroAnimation's effect, in the order of their delays
\* (2500, 5000, 6500 and 7500 ms).
IntroTimers == 1..4

Phases == <<"warp", "formula", "logo", "reveal">>

\* The state after App's first render: the key check is pending, nothing but
\* an empty page is rendered.  The bridge window.aistudio exists or not.
ShellInit ==
    /\ aistudio \in BOOLEAN
    /\ hasApiKey = FALSE
    /\ checkingKey = TRUE
    /\ isConnecting = FALSE
    /\ modalPc = "idle"
    /\ showIntro = TRUE
    /\ phase = "warp"
    /\ introTimers = {}
    /\ onCompleteCalls = 0
    /\ currentView = "HOME"
    /\ prevCall = NoCall
    /\ infographic3DData = null
    /\ generating3D = FALSE
    /\ gen3D = null
    /\ image3DRepo = null
    /\ NoArticle
    /\ repoInput = <<>>
    /\ loading = FALSE
    /\ error = null
    /\ loadingStage = ""
    /\ infographicData = null
    /\ currentFileTree = null
    /\ currentRepoName = <<>>
    /\ repoHistory = <<>>
    /\ pc = "idle"
    /\ repoDetails = NoDetails
    /\ branchIdx = 0
    /\ requests = <<>>
    /\ responses = <<>>
    /\ fetchResult = Pending
    /\ consoleLog = <<>>
    /\ genCalls = 0

\* App renders again with a changed state: handleIntroComplete is a new
\* function, so a mounted IntroAnimation cleans its effect up (all timeouts
\* cleared) and runs it again (all four timeouts set).
timersAfterRender(introShown) == IF introShown THEN IntroTimers ELSE {}

\* checkKey: hasSelectedApiKey() resolves to has, or the bridge is absent;
\* setHasApiKey, setCheckingKey(false), and the page with the modal (without
\* a key) and the intro is rendered for the first time.
checkKeySettled(has) ==
    /\ checkingKey
    /\ hasApiKey' = (aistudio /\ has)
    /\ checkingKey' = FALSE
    /\ introTimers' = IntroTimers
    /\ UNCHANGED <<aistudio, isConnecting, modalPc, showIntro, phase, onCompleteCalls>>

\* handleConnect up to its first await, or to its end when the bridge is
\* absent.
handleConnect ==
    /\ ~checkingKey
    /\ ~hasApiKey
    /\ ~isConnecting
    /\ isConnecting' = TRUE
    /\ modalPc' = IF aistudio THEN "selecting" ELSE "idle"
    /\ UNCHANGED <<aistudio, hasApiKey, checkingKey, showIntro, phase, introTimers,
                   onCompleteCalls>>

\* openSelectKey() settles: the 500 ms timeout is set, or the catch clause
\* resets isConnecting.
selectKeySettled(resolved) ==
    /\ modalPc = "selecting"
    /\ IF resolved
         THEN modalPc' = "timer" /\ UNCHANGED isConnecting
         ELSE modalPc' = "idle" /\ isConnecting' = FALSE
    /\ UNCHANGED <<aistudio, hasApiKey, checkingKey, showIntro, phase, introTimers,
                   onCompleteCalls>>

\* The 500 ms timeout fires: onKeySelected() sets hasApiKey, App renders
\* again without the modal.
keyTimerFires ==
    /\ modalPc = "timer"
    /\ modalPc' = "idle"
    /\ hasApiKey' = TRUE
    /\ isConnecting' = FALSE
    /\ introTimers' = timersAfterRender(showIntro)
    /\ UNCHANGED <<aistudio, checkingKey, showIntro, phase, onCompleteCalls>>

\* The earliest pending timeout of the intro fires: timer1..timer3 set the
\* phase, timer4 calls onComplete, which unmounts the intro.
introTimerFires ==
    /\ showIntro
    /\ introTimers # {}
    /\ LET t == CHOOSE k \in introTimers : \A l \in introTimers : k <= l
       IN IF t < 4
            THEN /\ phase' = Phases[t + 1]
                 /\ introTimers' = introTimers \ {t}
                 /\ UNCHANGED <<showIntro, onCompleteCalls>>
            ELSE /\ onCompleteCalls' = onCompleteCalls + 1
                 /\ showIntro' = FALSE
                 /\ introTimers' = {}
                 /\ UNCHANGED phase
    /\ UNCHANGED <<aistudio, hasApiKey, checkingKey, isConnecting, modalPc>>

\* The page takes clicks: it is rendered, not covered by the modal, and the
\* intro is gone or lets pointer events through (reveal).
pageInteractive ==
    /\ ~checkingKey
    /\ hasApiKey
    /\ ~showIntro \/ phase = "reveal"

\* A click on a navigation button.
navigateClicked(mode) ==
    /\ pageInteractive
    /\ viewChanges(mode)
    /\ introTimers' = IF mode # currentView THEN timersAfterRender(showIntro)
                      ELSE introTimers
    /\ UNCHANGED <<aistudio, hasApiKey, checkingKey, isConnecting, modalPc, showIntro,
                   phase, onCompleteCalls>>

\* generateInfographic settles in the Repo Analyzer: an image is added to
\* repoHistory, which is App's state, so App renders again.
historyAdded(outcome) ==
    /\ generateSettled(outcome)
    /\ introTimers' = IF repoHistory' # repoHistory THEN timersAfterRender(showIntro)
                      ELSE introTimers
    /\ UNCHANGED <<currentView, threeDVars, prevCall, articleVars>>
    /\ UNCHANGED <<aistudio, hasApiKey, checkingKey, isConnecting, modalPc, showIntro,
                   phase, onCompleteCalls>>

ShellNext ==
    \/ /\ \E has \in BOOLEAN : checkKeySettled(has)
       /\ UNCHANGED <<repoVars, currentView, articleVars>>
    \/ handleConnect /\ UNCHANGED <<repoVars, currentView, articleVars>>
    \/ /\ \E resolved \in BOOLEAN : selectKeySettled(resolved)
       /\ UNCHANGED <<repoVars, currentView, articleVars>>
    \/ keyTimerFires /\ UNCHANGED <<repoVars, currentView, articleVars>>
    \/ introTimerFires /\ UNCHANGED <<repoVars, currentView, articleVars>>
    \/ /\ \E mode \in ViewModes : navigateClicked(mode)
       /\ UNCHANGED articleVars
    \/ /\ pageInteractive
       /\ currentView = "REPO_ANALYZER"
       /\ \E input \in RepoInputs : handleAnalyze(input)
       /\ analysisStarts
       /\ UNCHANGED prevCall
    \/ \E o \in StudioFetchOutcomes : fetchSettled(o) /\ analysisGoesOn /\ UNCHANGED prevCall
    \/ \E b \in StudioJsonOutcomes : jsonSettled(b) /\ analysisGoesOn /\ UNCHANGED prevCall
    \/ \E o \in NavGenOutcomes : historyAdded(o)

\* App's shell: key check, modal, intro and navigation.
ShellSpec == ShellInit /\ [][ShellNext]_vars

(***************************************************************************)
(* services/geminiService.ts, generateArticleInfographic: a content         *)
(* analysis call (phase 1) whose failure is absorbed, then an image call    *)
(* (phase 2) whose failure is rethrown.  A prompt is modelled by the parts  *)
(* it is built from; the text of a response is a token.                     *)
(***************************************************************************)

\* The longest groundingChunks array of a phase 1 response.
MaxChunks == 3

ArticleUrls == {"https://a.example/post", "https://b.example/post"}
ArticleStyles == {"Fun & Playful"}
ArticleLanguages == {"English"}

\* analysisResponse.text: a plan, or undefined.
AnalysisTexts == {Some("PLAN"), null}

\* A grounding chunk: chunk.web is absent, or carries an optional uri and an
\* optional title.  One chunk carries the empty string as its uri.
webChunk(uri, title) == [web |-> Some([uri |-> uri, title |-> title])]

GroundingChunks ==
    {[web |-> null],
     webChunk(Some("uriA"), Some("Title 1")),
     webChunk(Some("uriA"), Some("Title 2")),
     webChunk(Some("uriA"), null),
     webChunk(Some("uriB"), Some("Title 1")),
     webChunk(null, Some("Title 1")),
     webChunk(Some(""), Some("Title 1"))}

ChunkArrays == UNION {[1..n -> GroundingChunks] : n \in 0..MaxChunks}

\* How the generateContent call of phase 1 settles: it rejects, or resolves
\* to a response whose groundingChunks are undefined or an array.
AnalysisOutcomes ==
    [kind : {"reject"}, error : {[name |-> "ApiError", message |-> OverloadedMessage]}]
    \cup [kind : {"response"}, text : AnalysisTexts,
          chunks : {null} \cup {Some(c) : c \in ChunkArrays}]

\* How the generateContent call of phase 2 settles.
ImageOutcomes ==
    [kind : {"image"}, data : Images]
    \cup [kind : {"noimage"}]
    \cup [kind : {"reject"}, error : {[name |-> "ApiError", message |-> OverloadedMessage]}]

\* if (chunk.web?.uri): the chunk carries a non-empty web uri.
hasWebUri(chunk) ==
    /\ chunk.web # null
    /\ chunk.web[1].uri # null
    /\ chunk.web[1].uri[1] # ""

\* { uri: chunk.web.uri, title: chunk.web.title || "" }
citationOf(chunk) ==
    [uri |-> chunk.web[1].uri[1],
     title |-> IF chunk.web[1].title = null THEN "" ELSE chunk.web[1].title[1]]

\* chunks.forEach(chunk => { if (chunk.web?.uri) citations.push(...) })
RECURSIVE pushCitations(_, _)
pushCitations(list, chunks) ==
    IF chunks = <<>> THEN list
    ELSE pushCitations(IF hasWebUri(Head(chunks))
                         THEN Append(list, citationOf(Head(chunks)))
                         ELSE list,
                       Tail(chunks))

\* A Map that keeps the first value of a key.
mapSet_keepsFirst(map, c) ==
    IF \E k \in DOMAIN map : map[k].uri = c.uri THEN map ELSE Append(map, c)

\* Map.prototype.set on a map kept as the sequence of its values in insertion
\* order: an existing key keeps its place and takes the new value, a new key
\* goes to the end.
mapSet(map, c) ==
    IF \E k \in DOMAIN map : map[k].uri = c.uri
      THEN [k \in DOMAIN map |-> IF map[k].uri = c.uri THEN c ELSE map[k]]
      ELSE Append(map, c)

\* citations.forEach(c => uniqueCitations.set(c.uri, c));
\* Array.from(uniqueCitations.values())
RECURSIVE uniqueCitations(_, _)
uniqueCitations(map, list) ==
    IF list = <<>> THEN map
    ELSE uniqueCitations(mapSet(map, Head(list)), Tail(list))

\* The citations after the try block of phase 1 ran on a response.
extractCitations(chunks) ==
    IF chunks = null THEN <<>>
    ELSE uniqueCitations(<<>>, pushCitations(<<>>, chunks[1]))

\* `Create an infographic about: ${url}. Translate text to ${language}.`
fallbackSummary(url, language) ==
    <<"Create an infographic about: ", url, ". Translate text to ", language, ".">>

\* analysisResponse.text || ""
summaryOf(text) == IF text = null \/ text = Some("") THEN <<>> ELSE text

\* The image prompt of phase 2, by the parts that vary.
imagePrompt(summary, style, language) ==
    [summary |-> summary, style |-> style, language |-> language]

\* generateArticleInfographic(url, style, onProgress, language) up to its
\* first await: the generateContent call of phase 1 is issued.
generateArticleInfographic(url, style, language) ==
    /\ articlePc \in {"idle", "done"}
    /\ articleArgs' = Some([url |-> url, style |-> style, language |-> language])
    /\ structuralSummary' = <<>>
    /\ citations' = <<>>
    /\ analysisResponse' = Pending
    /\ articleCalls' = <<[phase |-> 1, url |-> url]>>
    /\ articleResult' = Pending
    /\ articlePc' = "phase1"

\* A phase 1 failure that is rethrown instead of absorbed.
analysisSettled_rethrows(outcome) ==
    /\ articlePc = "phase1"
    /\ analysisResponse' = outcome
    /\ IF outcome.kind = "reject"
         THEN /\ articleResult' = [kind |-> "throw", error |-> outcome.error]
              /\ articlePc' = "done"
              /\ UNCHANGED <<structuralSummary, citations, articleCalls>>
         ELSE /\ structuralSummary' = summaryOf(outcome.text)
              /\ citations' = extractCitations(outcome.chunks)
              /\ articleCalls' =
                   Append(articleCalls,
                          [phase |-> 2,
                           prompt |-> imagePrompt(structuralSummary',
                                                  articleArgs[1].style,
                                                  articleArgs[1].language)])
              /\ articlePc' = "phase2"
              /\ UNCHANGED articleResult
    /\ UNCHANGED articleArgs

\* The call of phase 1 settles: the try block finishes or the catch clause
\* replaces the summary; then the call of phase 2 is issued.
analysisSettled(outcome) ==
    /\ articlePc = "phase1"
    /\ analysisResponse' = outcome
    /\ structuralSummary' =
         IF outcome.kind = "reject"
           THEN fallbackSummary(articleArgs[1].url, articleArgs[1].language)
           ELSE summaryOf(outcome.text)
    /\ citations' =
         IF outcome.kind = "reject" THEN citations
         ELSE extractCitations(outcome.chunks)
    /\ articleCalls' =
         Append(articleCalls,
                [phase |-> 2,
                 prompt |-> imagePrompt(structuralSummary', articleArgs[1].style,
                                        articleArgs[1].language)])
    /\ articlePc' = "phase2"
    /\ UNCHANGED <<articleArgs, articleResult>>

\* The call of phase 2 settles: { imageData, citations } is returned, or the
\* error is logged and rethrown.
imageSettled(outcome) ==
    /\ articlePc = "phase2"
    /\ articleResult' =
         CASE outcome.kind = "image" ->
                [kind |-> "return",
                 value |-> [imageData |-> Some(outcome.data), citations |-> citations]]
           [] outcome.kind = "noimage" ->
                [kind |-> "return",
                 value |-> [imageData |-> null, citations |-> citations]]
           [] outcome.kind = "reject" ->
                [kind |-> "throw", error |-> outcome.error]
    /\ articlePc' = "done"
    /\ UNCHANGED <<articleArgs, structuralSummary, citations, analysisResponse,
                   articleCalls>>

ArticleNext ==
    \/ /\ \E url \in ArticleUrls, style \in ArticleStyles, language \in ArticleLanguages :
            generateArticleInfographic(url, style, language)
       /\ UNCHANGED <<repoVars, currentView, shellVars>>
    \/ /\ articlePc = "phase1"
       /\ \E o \in AnalysisOutcomes : analysisSettled(o)
       /\ UNCHANGED <<repoVars, currentView, shellVars>>
    \/ /\ articlePc = "phase2"
       /\ \E o \in ImageOutcomes : imageSettled(o)
       /\ UNCHANGED <<repoVars, currentView, shellVars>>

\* The article generator alone: the rest of the application stays as it starts.
ArticleSpec == AppInit /\ [][ArticleNext]_vars

\* The i-th candidate of the current call met an error: its fetch was rejected,
\* or the body of its successful response could not be parsed or used.
erroredAt(i) ==
    \/ responses[i].fetch.kind = "reject"
    \/ okResponse(i) /\ responses[i].body.kind \in {"reject", "null", "badtree"}

\* That error reached the caller: the call ended with it.
surfacedAt(i) ==
    /\ i = Len(responses)
    /\ fetchResult.kind = "throw"
    /\ fetchResult.error.name # "Error"

fetchErrorsLogged == Cardinality({k \in DOMAIN consoleLog : consoleLog[k] = "error:fetch"})

\* C21: every error of a candidate that the call absorbs is written to the log,
\* on "main" as well as on "master": the log holds one console.error entry for
\* each absorbed error.
C21_AbsorbedErrorsLogged ==
    fetchErrorsLogged =
        Cardinality({i \in 1..Len(responses) : erroredAt(i) /\ ~surfacedAt(i)})

\* The history item of a generation.
historyItem(repoName, imageData, is3D) ==
    [repoName |-> repoName, imageData |-> imageData, is3D |-> is3D,
     style |-> DefaultStyle]

C25_3DImageOfCurrentRepo ==
    infographic3DData # null => image3DRepo = Some(currentRepoName)

\* C26: currentFileTree, when it is not null, is the tree fetched for the
\* repository named by currentRepoName (the tree is the one the last
\* fetchRepoFileTree call returned, so its repository is that of the requests).
C26_TreeOfCurrentRepo ==
    currentFileTree # null =>
        /\ Len(requests) >= 1
        /\ requests[1].repo = currentRepoName

\* C23: the call ends before the last candidate was requested only by
\* returning a list or after a response with status 403 or 429; an error of the
\* network or of the body parse, whatever its message, neither ends the call
\* early nor reaches the caller.
C23_EarlyStopOnlyOnRateLimitStatus ==
    /\ (fetchResult.kind = "throw" /\ Len(requests) < Len(branches)) =>
           rateLimited(Len(responses))
    /\ \A i \in 1..Len(responses) : erroredAt(i) => ~surfacedAt(i)

\* C24: loading is true only while an analysis is in flight, and when every
\* awaited call settles an analysis that has set loading ends with loading
\* false and loadingStage empty, on every path.
C24_LoadingAlwaysCleared ==
    /\ [](loading => pc # "idle")
    /\ [](pc = "idle" => loadingStage = "")
    /\ loading ~> (~loading /\ loadingStage = "")

\* C24 witness: an analysis whose generation call was rejected has ended with
\* loading false and an empty loadingStage.
C24_Witness ==
    /\ genCalls = 1
    /\ error = Some(OverloadedMessage)
    /\ pc = "idle"
    /\ ~loading
    /\ loadingStage = ""

\* The generateContent calls of phase 2 that the current call has issued.
imageCalls == {k \in DOMAIN articleCalls : articleCalls[k].phase = 2}

\* C27, in every state: once phase 1 has failed, exactly one phase 2 call has
\* been issued, its prompt is built from the fallback summary that names the
\* URL, no citation is kept, and a returned result carries no citations.
absorbedAnalysisFailure ==
    (analysisResponse.kind = "reject") =>
        /\ articlePc \in {"phase2", "done"}
        /\ Cardinality(imageCalls) = 1
        /\ \A k \in imageCalls :
              /\ Len(articleCalls[k].prompt.summary) = 5
              /\ articleCalls[k].prompt.summary[2] = articleArgs[1].url
              /\ articleCalls[k].prompt.summary[4] = articleArgs[1].language
        /\ citations = <<>>
        /\ articleResult.kind = "return" => articleResult.value.citations = <<>>

\* C27, in every step: the call throws only in the step in which the phase 2
\* call rejects, and a phase 2 response without image data makes the call
\* return imageData null.
failsOnlyInPhase2 ==
    /\ (articleResult.kind # "throw" /\ articleResult'.kind = "throw") =>
          /\ articlePc = "phase2"
          /\ \E o \in ImageOutcomes : o.kind = "reject" /\ imageSettled(o)
    /\ (articlePc = "phase1" /\ articlePc' # "phase1") =>
          /\ articlePc' = "phase2"
          /\ articleResult' = Pending
    /\ (articlePc = "phase2" /\ imageSettled([kind |-> "noimage"])) =>
          /\ articleResult'.kind = "return"
          /\ articleResult'.value.imageData = null

\* C27: in generateArticleInfographic a failure of the content-analysis call
\* is never surfaced: the image call is still issued exactly once, with a
\* fallback prompt built from the URL, and the result carries no citations;
\* the call fails only when the phase 2 call fails, and a phase 2 response
\* without image data yields imageData null rather than an error.
C27_AnalysisFailureAbsorbed ==
    [](absorbedAnalysisFailure) /\ [][failsOnlyInPhase2]_vars

\* Phase 1 failed, phase 2 answered without an image, and the call returned.
C27_Witness ==
    /\ articlePc = "done"
    /\ analysisResponse.kind = "reject"
    /\ articleResult.kind = "return"
    /\ articleResult.value.imageData = null

\* The grounding chunks of the phase 1 response, none when it carried none.
chunksOfResponse ==
    IF analysisResponse.kind = "response" /\ analysisResponse.chunks # null
      THEN analysisResponse.chunks[1]
      ELSE <<>>

\* The positions of the grounding chunks that carry the web URI uri.
occurrences(uri) ==
    {i \in DOMAIN chunksOfResponse :
        /\ chunksOfResponse[i].web # null
        /\ chunksOfResponse[i].web[1].uri = Some(uri)}

\* The web URIs the grounding chunks carry.
citedUris ==
    {chunksOfResponse[i].web[1].uri[1] :
        i \in {j \in DOMAIN chunksOfResponse :
                 /\ chunksOfResponse[j].web # null
                 /\ chunksOfResponse[j].web[1].uri # null
                 /\ chunksOfResponse[j].web[1].uri # Some("")}}

firstOccurrence(uri) == CHOOSE i \in occurrences(uri) : \A j \in occurrences(uri) : i <= j
lastOccurrence(uri) == CHOOSE i \in occurrences(uri) : \A j \in occurrences(uri) : j <= i

\* The title the chunk at position i gives, the empty string when it has none.
titleAt(i) ==
    IF chunksOfResponse[i].web[1].title = null THEN ""
    ELSE chunksOfResponse[i].web[1].title[1]

\* C30: the citations returned by generateArticleInfographic have pairwise
\* distinct URIs and cover exactly the URIs of the grounding chunks that carry
\* a web URI; a URI that occurs several times has one entry, at the position of
\* its first occurrence and with the title of its last occurrence; chunks
\* without a web URI contribute nothing.
C30_CitationsDeduplicated ==
    (articlePc \in {"phase2", "done"} /\ analysisResponse.kind = "response") =>
        /\ \A k, l \in DOMAIN citations : citations[k].uri = citations[l].uri => k = l
        /\ {citations[k].uri : k \in DOMAIN citations} = citedUris
        /\ \A k, l \in DOMAIN citations :
              k < l => firstOccurrence(citations[k].uri) < firstOccurrence(citations[l].uri)
        /\ \A k \in DOMAIN citations :
              citations[k].title = titleAt(lastOccurrence(citations[k].uri))
        /\ articleResult.kind = "return" => articleResult.value.citations = citations

\* A result whose first citation stands for a URI that occurred twice with
\* different titles, around a chunk of another URI.
C30_Witness ==
    /\ articleResult.kind = "return"
    /\ Len(articleResult.value.citations) = 2
    /\ Cardinality(occurrences(articleResult.value.citations[1].uri)) = 2
    /\ firstOccurrence(articleResult.value.citations[1].uri) = 1
    /\ lastOccurrence(articleResult.value.citations[1].uri) = 3
    /\ titleAt(1) # titleAt(3)

\* C28: the API-key modal never gets stuck: once handleConnect has finished
\* (it is not suspended in openSelectKey), either its timeout that calls
\* onKeySelected is pending or isConnecting is false again, so the button can
\* be pressed; with the key selector succeeding, throwing, or the bridge
\* window.aistudio absent.
C28_ModalNeverStuck ==
    (~checkingKey /\ ~hasApiKey /\ isConnecting) => modalPc \in {"selecting", "timer"}

\* The position of a phase in the sequence warp, formula, logo, reveal.
phaseRank(p) == CHOOSE k \in DOMAIN Phases : Phases[k] = p

\* C29: the intro's phase only moves forward through warp, formula, logo,
\* reveal, and onComplete is called once, from the reveal phase, also when App
\* renders again while the intro runs and passes a new onComplete.
C29_IntroOnlyForward ==
    [][/\ phaseRank(phase') >= phaseRank(phase)
       /\ onCompleteCalls' # onCompleteCalls =>
             /\ phase = "reveal"
             /\ onCompleteCalls = 0
             /\ onCompleteCalls' = 1]_vars

====
